---- MODULE Spec2Model ----
(***************************************************************************)
(* Model of the risk gate, the order execution pipeline, the position      *)
(* monitor and the persistent trading state of the Gemini trading bot.     *)
(*                                                                         *)
(* Units.  Money and prices are whole dollars.  Time is whole hours since  *)
(* an arbitrary UTC midnight; the UTC date is the day index now \div 24.   *)
(* Fractions of config.py are kept in parts per ten thousand (E4).         *)
(* Quantities are whole multiples of 1/QTY_DEN contract.  Prices are even, *)
(* so that price times quantity is a whole number of dollars.              *)
(* Floating-point arithmetic is modelled by exact rational arithmetic.     *)
(***************************************************************************)
EXTENDS Integers, Sequences, FiniteSets, TLC

(***************************************************************************)
(* config.py                                                               *)
(***************************************************************************)
ACCOUNT_SIZE == 10000
FIXED_RISK_AMOUNT == 50
\* fractions, in parts per 10000
E4 == 100 * 100
DAILY_LOSS_LIMIT == 275
MAX_DRAWDOWN_TOTAL == 450
MIN_TRADE_VALUE_PCT == 600
MAX_MARGIN_EXPOSURE == 1500
DAILY_PROFIT_CAP == 300
PROFIT_DISTRIBUTION_MAX == 3000
MAX_TRADES_PER_DAY == 2
\* MIN_RR_RATIO = 1.5, in hundredths
MIN_RR_RATIO == 150
MIN_CONFIDENCE == 7
CIRCUIT_BREAKER_LOSSES == 3
CIRCUIT_BREAKER_PAUSE_H == 24
\* PARTIAL_CLOSE_PCT = 0.50, in hundredths
PARTIAL_CLOSE_PCT == 50
TRAILING_ATR_MULT == 1
MAX_HOLD_HOURS == 48
\* SL_PLACEMENT_TIMEOUT = 30 s, polled every SL_POLL_SLEEP = 2 s
SL_PLACEMENT_TIMEOUT == 30
SL_POLL_SLEEP == 2
\* quantities are counted in units of 1/QTY_DEN contract, so that
\* PARTIAL_CLOSE_PCT of a whole number of contracts is a whole number of units
QTY_DEN == 1 + 1
\* the leverage assumed by calculate_position_size
ASSUMED_LEVERAGE == 10
\* _check_profit_distribution: minimum trading days and materiality floor
MIN_DISTRIBUTION_DAYS == 5
MIN_DISTRIBUTION_PROFIT == 500

(***************************************************************************)
(* Bounds of the model                                                     *)
(***************************************************************************)
\* the clock advances in steps of TickHours up to MaxTime (hours)
TickHours == 12
MaxTime == 48
\* at most MaxRecorded closed trades are recorded in one behaviour
MaxRecorded == 3
\* the same, on an account that others trade on too
MaxRecordedShared == 1
\* at most MaxPolls of the SL verification polls are distinguished
MaxPolls == 2

HoursPerDay == 2 * 12
NoTime == 0 - 1
Days == 0..(MaxTime \div HoursPerDay)
Today(t) == t \div HoursPerDay

Max(a, b) == IF a >= b THEN a ELSE b
Min(a, b) == IF a <= b THEN a ELSE b
Abs(a) == IF a >= 0 THEN a ELSE -a

(***************************************************************************)
(* The state                                                               *)
(***************************************************************************)
VARIABLES
  st,               \* the TradingState in memory
  file,             \* the TradingState last written to the state file
  exch,             \* the exchange's position for each symbol
  now,              \* the clock, in hours
  call,             \* the operation that has just run (NoCall when none)
  nrec,             \* number of record_trade calls so far
  loss_run,         \* losing record_trade calls in a row (zero-PnL calls
                    \* aside) since consecutive_losses was 0
  cb_activated_at,  \* when activate_circuit_breaker was last called
  env,              \* the market and account the bot runs against: the
                    \* values its reads of the exchange can return
  tmp,              \* the temporary file save_to_file is writing
  probe,            \* a direct call of one unit: its arguments, its result
  adopted_open      \* the symbols whose exchange position was adopted as an
                    \* orphan and has been open on the exchange ever since

vars == << st, file, exch, now, call, nrec, loss_run, cb_activated_at, env, tmp, probe, adopted_open >>

(***************************************************************************)
(* trading_state.py: TradingState                                          *)
(***************************************************************************)
\* a dict: a function on the keys it holds
EmptyDict == << >>
DictGet(d, k, default) == IF k \in DOMAIN d THEN d[k] ELSE default
DictPut(d, k, v) == [ x \in DOMAIN d \cup {k} |-> IF x = k THEN v ELSE d[x] ]

FreshState(today) ==
  [ daily_pnl |-> 0,
    total_pnl |-> 0,
    peak_balance |-> ACCOUNT_SIZE,
    trades_today |-> 0,
    wins_today |-> 0,
    losses_today |-> 0,
    consecutive_losses |-> 0,
    winning_streak |-> 0,
    circuit_breaker_until |-> NoTime,
    last_daily_reset |-> today,
    open_positions |-> << >>,
    daily_profit_by_date |-> EmptyDict,
    trading_days |-> {} ]

\* seeded fault: no comparison of dates, every call resets
reset_daily_always(s, t) ==
  [ s EXCEPT
      !.daily_profit_by_date =
         IF s.daily_pnl # 0 THEN DictPut(@, s.last_daily_reset, s.daily_pnl) ELSE @,
      !.trading_days =
         IF s.trades_today > 0 THEN @ \cup {s.last_daily_reset} ELSE @,
      !.daily_pnl = 0,
      !.trades_today = 0,
      !.wins_today = 0,
      !.losses_today = 0,
      !.last_daily_reset = Today(t) ]

\* seeded fault: the day's result is archived under the new date
reset_daily_misfiled(s, t) ==
  IF Today(t) # s.last_daily_reset
  THEN [ s EXCEPT
           !.daily_profit_by_date =
              IF s.daily_pnl # 0 THEN DictPut(@, Today(t), s.daily_pnl) ELSE @,
           !.trading_days =
              IF s.trades_today > 0 THEN @ \cup {s.last_daily_reset} ELSE @,
           !.daily_pnl = 0,
           !.trades_today = 0,
           !.wins_today = 0,
           !.losses_today = 0,
           !.last_daily_reset = Today(t) ]
  ELSE s

reset_daily_if_needed(s, t) ==
  IF Today(t) # s.last_daily_reset
  THEN [ s EXCEPT
           !.daily_profit_by_date =
              IF s.daily_pnl # 0
              THEN DictPut(@, s.last_daily_reset, s.daily_pnl)
              ELSE @,
           !.trading_days =
              IF s.trades_today > 0 THEN @ \cup {s.last_daily_reset} ELSE @,
           !.daily_pnl = 0,
           !.trades_today = 0,
           !.wins_today = 0,
           !.losses_today = 0,
           !.last_daily_reset = Today(t) ]
  ELSE s

\* seeded fault: the threshold has to be exceeded
is_circuit_breaker_triggered_late(s) ==
  s.consecutive_losses > CIRCUIT_BREAKER_LOSSES

is_circuit_breaker_triggered(s) ==
  s.consecutive_losses >= CIRCUIT_BREAKER_LOSSES

\* seeded fault: else in place of elif pnl < 0
record_trade_state_else(s, pnl, t) ==
  LET r == reset_daily_if_needed(s, t) IN
  [ r EXCEPT
      !.daily_pnl = @ + pnl,
      !.total_pnl = @ + pnl,
      !.trades_today = @ + 1,
      !.trading_days = @ \cup {Today(t)},
      !.consecutive_losses = IF pnl > 0 THEN 0 ELSE @ + 1,
      !.winning_streak = IF pnl > 0 THEN @ + 1 ELSE 0,
      !.wins_today = IF pnl > 0 THEN @ + 1 ELSE @,
      !.losses_today = IF pnl > 0 THEN @ ELSE @ + 1 ]

\* the state after record_trade(pnl, ...) called at time t
record_trade_state(s, pnl, t) ==
  LET r == reset_daily_if_needed(s, t) IN
  [ r EXCEPT
      !.daily_pnl = @ + pnl,
      !.total_pnl = @ + pnl,
      !.trades_today = @ + 1,
      !.trading_days = @ \cup {Today(t)},
      !.consecutive_losses = IF pnl > 0 THEN 0 ELSE IF pnl < 0 THEN @ + 1 ELSE @,
      !.winning_streak = IF pnl > 0 THEN @ + 1 ELSE IF pnl < 0 THEN 0 ELSE @,
      !.wins_today = IF pnl > 0 THEN @ + 1 ELSE @,
      !.losses_today = IF pnl < 0 THEN @ + 1 ELSE @ ]

\* record_trade: the new state and the value returned
record_trade(s, pnl, t) ==
  LET r == record_trade_state(s, pnl, t) IN
  [ st |-> r, ret |-> is_circuit_breaker_triggered(r) ]

\* seeded fault: the pause is never set
activate_circuit_breaker_off(s, t) == s

activate_circuit_breaker(s, t) ==
  [ s EXCEPT !.circuit_breaker_until = t + CIRCUIT_BREAKER_PAUSE_H ]

\* seeded fault: an expired pause is reported but left in place
is_circuit_breaker_active_sticky(s, t) ==
  [ ret |-> s.circuit_breaker_until # NoTime /\ t < s.circuit_breaker_until,
    st |-> s ]

\* is_circuit_breaker_active: the value returned and the state left behind
is_circuit_breaker_active(s, t) ==
  IF s.circuit_breaker_until = NoTime
  THEN [ ret |-> FALSE, st |-> s ]
  ELSE IF t < s.circuit_breaker_until
  THEN [ ret |-> TRUE, st |-> s ]
  ELSE [ ret |-> FALSE, st |-> [ s EXCEPT !.circuit_breaker_until = NoTime ] ]

get_profit_distribution_ratio_exceeds(s, t) ==
  \* ratio > PROFIT_DISTRIBUTION_MAX, with ratio = today_profit / total_pnl
  IF s.total_pnl <= 0 THEN FALSE
  ELSE LET today_profit == DictGet(s.daily_profit_by_date, Today(t), 0) + s.daily_pnl IN
       IF today_profit <= 0 THEN FALSE
       ELSE today_profit * E4 > PROFIT_DISTRIBUTION_MAX * s.total_pnl

get_trading_days_count(s) == Cardinality(s.trading_days)

(***************************************************************************)
(* Signals (the decision provider's output) and exchange answers           *)
(***************************************************************************)
\* str.upper() on the action strings of the model
Upper(a) ==
  IF a = "buy" THEN "BUY"
  ELSE IF a = "sell" THEN "SELL"
  ELSE IF a = "hold" THEN "HOLD"
  ELSE a

\* A positions query (get_positions): ok = FALSE when the call raises,
\* else list holds the positions the exchange reports.
FailedQuery == [ ok |-> FALSE, list |-> << >> ]

(***************************************************************************)
(* risk_validator.py: RiskValidator                                        *)
(***************************************************************************)
Allow(s, sig) == [ allowed |-> TRUE, reason |-> "All checks passed", st |-> s, sig |-> sig ]
Reject(why, s, sig) == [ allowed |-> FALSE, reason |-> why, st |-> s, sig |-> sig ]

max_daily_loss == (ACCOUNT_SIZE * DAILY_LOSS_LIMIT) \div E4

\* seeded fault: the daily loss is not looked at
_check_daily_loss_limit_off(s) == TRUE

_check_daily_loss_limit(s) == ~ (s.daily_pnl <= - max_daily_loss)

\* seeded fault: the peak follows the balance, up or down
raise_peak_to_balance(s, balance) == [ s EXCEPT !.peak_balance = balance ]

\* the peak balance after _check_total_drawdown saw the balance
raise_peak(s, balance) ==
  IF balance > s.peak_balance THEN [ s EXCEPT !.peak_balance = balance ] ELSE s

\* get_drawdown_pct(), the balance read being balance: the state left
\* behind and the drawdown returned, in parts per 10000 of ACCOUNT_SIZE
get_drawdown_pct(s, balance) ==
  LET s2 == raise_peak(s, balance) IN
  [ st |-> s2, ret |-> ((s2.peak_balance - balance) * E4) \div ACCOUNT_SIZE ]

_check_total_drawdown(s, balance) ==
  ~ ((s.peak_balance - balance) * E4 >= ACCOUNT_SIZE * MAX_DRAWDOWN_TOTAL)

_check_daily_trade_count(s) == ~ (s.trades_today >= MAX_TRADES_PER_DAY)

_check_daily_profit_cap(s) == ~ (s.daily_pnl * E4 >= ACCOUNT_SIZE * DAILY_PROFIT_CAP)

\* seeded fault: the confidence is not looked at
_check_confidence_off(sig) == TRUE

_check_confidence(sig) == ~ (sig.confidence < MIN_CONFIDENCE)

_check_stop_loss_risk(sig) == ~ (sig.entry_price <= 0 \/ sig.stop_loss <= 0)

\* the reason _check_tp_placement rejects with, or "OK"
_check_tp_placement(sig) ==
  LET action == Upper(sig.action)
      entry == sig.entry_price
      sl == sig.stop_loss
      tp1 == sig.take_profit_1
  IN  IF entry <= 0 \/ sl <= 0 \/ tp1 <= 0 THEN "OK"
      ELSE IF action = "BUY" /\ tp1 <= entry THEN "LONG TP1 is not above entry"
      ELSE IF action = "SELL" /\ tp1 >= entry THEN "SHORT TP1 is not below entry"
      ELSE IF action = "BUY" /\ sl >= entry THEN "LONG SL is not below entry"
      ELSE IF action = "SELL" /\ sl <= entry THEN "SHORT SL is not above entry"
      \* tp_dist < sl_dist * 0.8
      ELSE IF Abs(tp1 - entry) * 10 < Abs(entry - sl) * 8 THEN "TP1 too close"
      ELSE "OK"

_check_min_trade_value(sig) == ~ (sig.entry_price <= 0)

\* current_margin, in units of 1/QTY_DEN dollar: the sum over the reported
\* positions of size * avgPrice / leverage (fractions of a unit are dropped)
RECURSIVE current_margin(_)
current_margin(list) ==
  IF list = << >> THEN 0
  ELSE LET p == Head(list) IN
       (IF p.size > 0 /\ p.leverage > 0
        THEN (p.size * p.avgPrice) \div p.leverage
        ELSE 0) + current_margin(Tail(list))

\* a query that raises leaves the check passed
_check_max_margin(q, balance) ==
  IF ~ q.ok THEN TRUE
  ELSE ~ (current_margin(q.list) * E4 >= balance * MAX_MARGIN_EXPOSURE * QTY_DEN)

\* round(x, 2) of reward / risk, in hundredths (half rounds to even)
RoundHalfEven(n, d) ==
  LET q == n \div d
      r == n % d
  IN  IF 2 * r < d THEN q
      ELSE IF 2 * r > d THEN q + 1
      ELSE IF q % 2 = 0 THEN q ELSE q + 1

\* seeded fault: no ratio is too low
_check_rr_ratio_off(sig) == [ ok |-> TRUE, sig |-> sig ]

\* _check_rr_ratio: whether it passes, and the signal it leaves behind
_check_rr_ratio(sig) ==
  LET entry == sig.entry_price
      sl == sig.stop_loss
      tp1 == sig.take_profit_1
      compute == sig.risk_reward_ratio <= 0 /\ entry > 0 /\ sl > 0 /\ tp1 > 0
      risk == Abs(entry - sl)
      reward == Abs(tp1 - entry)
      \* rr < MIN_RR_RATIO on the unrounded ratio
      low == IF compute
             THEN (IF risk > 0 THEN reward * 100 < MIN_RR_RATIO * risk ELSE TRUE)
             ELSE sig.risk_reward_ratio < MIN_RR_RATIO
      sig2 == IF compute
              THEN [ sig EXCEPT !.risk_reward_ratio =
                       IF risk > 0 THEN RoundHalfEven(reward * 100, risk) ELSE 0 ]
              ELSE sig
  IN  [ ok |-> ~ low, sig |-> sig2 ]

\* seeded fault: the check is made however few the trading days
_check_profit_distribution_any_day(s, t) ==
  IF s.total_pnl < MIN_DISTRIBUTION_PROFIT THEN TRUE
  ELSE ~ get_profit_distribution_ratio_exceeds(s, t)

_check_profit_distribution(s, t) ==
  IF get_trading_days_count(s) < MIN_DISTRIBUTION_DAYS THEN TRUE
  ELSE IF s.total_pnl < MIN_DISTRIBUTION_PROFIT THEN TRUE
  ELSE ~ get_profit_distribution_ratio_exceeds(s, t)

\* validate_trade(signal, balance) at time t, with q the answer of the
\* positions query made by _check_max_margin.  Returns allowed, the reason,
\* the trading state and the signal it leaves behind.
validate_trade(s, sig, balance, q, t) ==
  LET s1 == reset_daily_if_needed(s, t)
      cb == is_circuit_breaker_active(s1, t)
      s2 == cb.st
      s3 == raise_peak(s2, balance)
      tp == _check_tp_placement(sig)
      rr == _check_rr_ratio(sig)
  IN  IF cb.ret THEN Reject("Circuit breaker active", s2, sig)
      ELSE IF ~ _check_daily_loss_limit(s2) THEN Reject("Daily loss limit hit", s2, sig)
      ELSE IF ~ _check_total_drawdown(s3, balance) THEN Reject("Total drawdown limit", s3, sig)
      ELSE IF ~ _check_daily_trade_count(s3) THEN Reject("Max trades/day reached", s3, sig)
      ELSE IF ~ _check_daily_profit_cap(s3) THEN Reject("Daily profit cap reached", s3, sig)
      ELSE IF ~ _check_confidence(sig) THEN Reject("Confidence too low", s3, sig)
      ELSE IF ~ _check_stop_loss_risk(sig) THEN Reject("Invalid entry/SL prices", s3, sig)
      ELSE IF tp # "OK" THEN Reject(tp, s3, sig)
      ELSE IF ~ _check_min_trade_value(sig) THEN Reject("Invalid entry price", s3, sig)
      ELSE IF ~ _check_max_margin(q, balance) THEN Reject("Max margin exposure", s3, sig)
      ELSE IF ~ rr.ok THEN Reject("R:R too low", s3, rr.sig)
      ELSE IF ~ _check_profit_distribution(s3, t)
      THEN Reject("Profit distribution limit", s3, rr.sig)
      ELSE Allow(s3, rr.sig)

(***************************************************************************)
(* calculate_position_size.  A fraction is a pair <<n, d>> with d > 0.     *)
(***************************************************************************)
RECURSIVE GCD(_, _)
GCD(a, b) == IF b = 0 THEN a ELSE GCD(b, a % b)

\* the fraction n/d in lowest terms (n >= 0, d > 0)
Frac(n, d) == LET g == GCD(n, d) IN << n \div g, d \div g >>
FracLess(a, b) == a[1] * b[2] < b[1] * a[2]
FracMul(a, k) == Frac(a[1] * k, a[2])
FracDiv(a, k) == Frac(a[1], a[2] * k)

RECURSIVE Digits(_)
Digits(n) == IF n < 10 THEN 1 ELSE 1 + Digits(n \div 10)

RECURSIVE Pow10(_)
Pow10(k) == IF k <= 0 THEN 1 ELSE 10 * Pow10(k - 1)

\* float(f"{qty:g}"): the quantity (in units of 1/QTY_DEN) kept to six
\* significant digits
FormatG(units) ==
  IF Digits(units) <= 6 THEN units
  ELSE LET p == Pow10(Digits(units) - 6) IN RoundHalfEven(units, p) * p

\* seeded fault: the final re-clamp to the fixed risk amount is left out
calculate_position_size_uncapped(entry, sl, balance, info) ==
  IF ~ info.ok THEN 0
  ELSE
  LET risk_amount == FIXED_RISK_AMOUNT
      risk_per_unit == Abs(entry - sl)
  IN  IF risk_per_unit <= 0 THEN 0
      ELSE
      LET qty0 == Frac(risk_amount, risk_per_unit)
          min_value == Frac(balance * MIN_TRADE_VALUE_PCT, E4)
          qty1 == IF FracLess(FracMul(qty0, entry), min_value)
                  THEN FracDiv(min_value, entry)
                  ELSE qty0
          max_position_value ==
            FracMul(Frac(balance * MAX_MARGIN_EXPOSURE, E4), ASSUMED_LEVERAGE)
          qty2 == IF FracLess(max_position_value, FracMul(qty1, entry))
                  THEN FracDiv(max_position_value, entry)
                  ELSE qty1
          steps == RoundHalfEven(qty2[1] * QTY_DEN, qty2[2] * info.qtyStep)
      IN  FormatG(Max(info.minOrderQty, steps * info.qtyStep))

\* seeded fault: the minimum trade value is enforced after the re-clamp to
\* the fixed risk amount instead of before it
calculate_position_size_floor_last(entry, sl, balance, info) ==
  IF ~ info.ok THEN 0
  ELSE
  LET risk_amount == FIXED_RISK_AMOUNT
      risk_per_unit == Abs(entry - sl)
  IN  IF risk_per_unit <= 0 THEN 0
      ELSE
      LET qty0 == Frac(risk_amount, risk_per_unit)
          max_position_value ==
            FracMul(Frac(balance * MAX_MARGIN_EXPOSURE, E4), ASSUMED_LEVERAGE)
          qty2 == IF FracLess(max_position_value, FracMul(qty0, entry))
                  THEN FracDiv(max_position_value, entry)
                  ELSE qty0
          min_value == Frac(balance * MIN_TRADE_VALUE_PCT, E4)
          qty3 == IF FracLess(FracMul(qty2, entry), min_value)
                  THEN FracDiv(min_value, entry)
                  ELSE qty2
          steps == RoundHalfEven(qty3[1] * QTY_DEN, qty3[2] * info.qtyStep)
      IN  FormatG(Max(info.minOrderQty, steps * info.qtyStep))

\* info = [ok, qtyStep, minOrderQty] in units of 1/QTY_DEN; the result is
\* the quantity in units of 1/QTY_DEN, 0 meaning "do not trade"
calculate_position_size(entry, sl, balance, info) ==
  IF ~ info.ok THEN 0
  ELSE
  LET risk_amount == FIXED_RISK_AMOUNT
      risk_per_unit == Abs(entry - sl)
  IN  IF risk_per_unit <= 0 THEN 0
      ELSE
      LET qty0 == Frac(risk_amount, risk_per_unit)
          min_value == Frac(balance * MIN_TRADE_VALUE_PCT, E4)
          qty1 == IF FracLess(FracMul(qty0, entry), min_value)
                  THEN FracDiv(min_value, entry)
                  ELSE qty0
          max_position_value ==
            FracMul(Frac(balance * MAX_MARGIN_EXPOSURE, E4), ASSUMED_LEVERAGE)
          qty2 == IF FracLess(max_position_value, FracMul(qty1, entry))
                  THEN FracDiv(max_position_value, entry)
                  ELSE qty1
          qty3 == IF FracLess(Frac(risk_amount, 1), FracMul(qty2, risk_per_unit))
                  THEN Frac(risk_amount, risk_per_unit)
                  ELSE qty2
          \* round(qty / lot_step) * lot_step, lot_step = qtyStep / QTY_DEN
          steps == RoundHalfEven(qty3[1] * QTY_DEN, qty3[2] * info.qtyStep)
      IN  FormatG(Max(info.minOrderQty, steps * info.qtyStep))

(***************************************************************************)
(* The exchange (Bybit), as the bot sees it                                *)
(***************************************************************************)
\* Config.SYMBOLS, and a symbol the bot does not trade
BotSymbol == "SOLUSDT"
OtherSymbol == "BTCUSDT"
Symbols == << BotSymbol, OtherSymbol >>
SymbolSet == { Symbols[i] : i \in DOMAIN Symbols }

Flat(sym) ==
  [ symbol |-> sym, side |-> "", size |-> 0, avgPrice |-> 0,
    stopLoss |-> 0, takeProfit |-> 0, leverage |-> 10 ]

\* lastPrice values a ticker read can return; 0 stands for a failed read
Prices(sym) == IF sym = BotSymbol THEN env.prices ELSE {20000}
PriceReads(sym) == Prices(sym) \cup {0}

\* totalEquity values get_balance can return (a failed read gives ACCOUNT_SIZE)
Balances == env.balances \cup {ACCOUNT_SIZE}

\* get_instruments_info: lot step and minimum quantity, in units of 1/QTY_DEN
\* (here: one contract), or a failure
InstrumentInfos ==
  { [ ok |-> FALSE, qtyStep |-> QTY_DEN, minOrderQty |-> QTY_DEN ],
    [ ok |-> TRUE, qtyStep |-> QTY_DEN, minOrderQty |-> QTY_DEN ] }

\* get_positions(settleCoin="USDT"): every symbol's position, or a failure
AllPositions(x) == [ i \in DOMAIN Symbols |-> x[Symbols[i]] ]
PositionQueries(x) == { FailedQuery, [ ok |-> TRUE, list |-> AllPositions(x) ] }

\* seeded fault: the reported sizes are not looked at
NoPositionSeen(list) == FALSE

HasOpenPosition(list) == \E i \in DOMAIN list : list[i].size > 0

\* the exchange after a market order that opens a position
OpenOnExchange(x, sym, side, qty, fill, sl, tp) ==
  [ x EXCEPT ![sym] = [ symbol |-> sym, side |-> side, size |-> qty, avgPrice |-> fill,
                        stopLoss |-> sl, takeProfit |-> tp, leverage |-> 10 ] ]

\* whether the exchange accepts a reduce-only order of close_side
CanReduce(x, sym, close_side) ==
  x[sym].size > 0 /\ x[sym].side # close_side

\* the exchange after an accepted reduce-only market order
ReduceOnExchange(x, sym, qty) ==
  IF qty >= x[sym].size THEN [ x EXCEPT ![sym] = Flat(sym) ]
  ELSE [ x EXCEPT ![sym].size = @ - qty ]

(***************************************************************************)
(* Signals                                                                 *)
(***************************************************************************)
Actions == {"BUY", "SELL", "HOLD"}
Confidences == {6, 8}
EntryPrices == {0, 100, 104}
StopLosses == {98, 106}
TakeProfits == {100, 104}
\* risk_reward_ratio as supplied, in hundredths (0: not supplied)
RiskRewards == {0, 100, 200}
Atrs == {2}

Signals ==
  [ symbol : {BotSymbol}, action : Actions, confidence : Confidences,
    entry_price : EntryPrices, stop_loss : StopLosses,
    take_profit_1 : TakeProfits, take_profit_2 : {0},
    risk_reward_ratio : RiskRewards, atr : Atrs ]

\* the signal of the analysis cycle's pre-check (main.py): no action, no
\* take profit; its stop loss 0.99 is only ever compared with 0
PreCheckSignal ==
  [ symbol |-> BotSymbol, action |-> "", confidence |-> 10, entry_price |-> 1,
    stop_loss |-> 1, take_profit_1 |-> 0, take_profit_2 |-> 0,
    risk_reward_ratio |-> 1000, atr |-> 0 ]

(***************************************************************************)
(* The record of a call: what the operation was given and what it did.     *)
(***************************************************************************)
NoCall ==
  [ op |-> "none", confidence |-> 0, stage |-> "none", precheck |-> "none",
    validated |-> "none", orders |-> << >>, entry_live |-> FALSE,
    sl_confirmed |-> FALSE, recorded |-> FALSE,
    trades |-> << >>, activated |-> FALSE, adopted |-> 0, gate |-> "none",
    \* the last price the monitor read, or the price execute_trade read
    \* before sizing (0: none, or the read failed)
    price |-> 0 ]

\* An order sent with place_order.  result is "ok" (the exchange executed it
\* and answered retCode 0), "failed" (nothing was executed: the call raised or
\* was refused) or "lost" (the exchange executed it, but the call raised or
\* its answer was unusable).
OrderResults == {"ok", "failed", "lost"}
Executed(o) == o.result \in {"ok", "lost"}

EntryOrder(sym, side, qty, sl, tp, result) ==
  [ kind |-> "entry", symbol |-> sym, side |-> side, qty |-> qty,
    stopLoss |-> sl, takeProfit |-> tp, reduceOnly |-> FALSE, result |-> result ]

CloseOrder(sym, side, qty, result) ==
  [ kind |-> "close", symbol |-> sym, side |-> side, qty |-> qty,
    stopLoss |-> 0, takeProfit |-> 0, reduceOnly |-> TRUE, result |-> result ]

\* an outcome of a handler: the trading state, the exchange, the state file
\* and the record of the call
Out(s, x, f, c) == [ st |-> s, exch |-> x, file |-> f, call |-> c ]

(***************************************************************************)
(* order_executor.py: OrderExecutor                                        *)
(***************************************************************************)
CloseSide(side) == IF side = "Buy" THEN "Sell" ELSE "Buy"

\* the polls _verify_sl_placement makes before its deadline: each either
\* raises ("error") or returns the exchange's answer ("answer")
NPolls == Min(MaxPolls, SL_PLACEMENT_TIMEOUT \div SL_POLL_SLEEP)
PollOutcomes == [ 1..NPolls -> {"error", "answer"} ]

\* seeded fault: a position is enough, with or without a stop loss
_verify_sl_size_only(x, sym, polls) ==
  \E i \in DOMAIN polls : polls[i] = "answer" /\ x[sym].size > 0

_verify_sl_placement(x, sym, polls) ==
  \E i \in DOMAIN polls :
     polls[i] = "answer" /\ x[sym].size > 0 /\ x[sym].stopLoss > 0

\* _emergency_close: the order sent, for each way the exchange can take it
\* (a reduce-only order is executed only against an opposite position)
EmergencyCloseOrders(x, sym, side, qty) ==
  { CloseOrder(sym, CloseSide(side), qty, r) :
      r \in IF CanReduce(x, sym, CloseSide(side)) THEN OrderResults ELSE {"failed"} }

AfterClose(x, o) == IF Executed(o) THEN ReduceOnExchange(x, o.symbol, o.qty) ELSE x

position_record(sig, side, qty, entry_price, t) ==
  [ order_id |-> "order",
    symbol |-> sig.symbol,
    side |-> side,
    qty |-> qty,
    original_qty |-> qty,
    entry_price |-> entry_price,
    stop_loss |-> sig.stop_loss,
    take_profit_1 |-> sig.take_profit_1,
    take_profit_2 |-> sig.take_profit_2,
    confidence |-> sig.confidence,
    risk_reward_ratio |-> sig.risk_reward_ratio,
    timestamp |-> t,
    partial_filled |-> FALSE,
    trailing_activated |-> FALSE,
    breakeven_activated |-> FALSE,
    atr |-> sig.atr ]

\* Steps 4 to 6 of execute_trade, after _place_market_order returned a
\* position: verify the stop loss, then record or close.
AfterOrder(s, x, f, c, sig, side, qty, entry_price, t) ==
  UNION {
    IF sl_verified
    THEN LET s2 == [ s EXCEPT !.open_positions =
                       Append(@, position_record(sig, side, qty, entry_price, t)) ]
         IN  { Out(s2, x, s2, [ c EXCEPT !.stage = "recorded",
                                         !.sl_confirmed = TRUE, !.recorded = TRUE ]) }
    ELSE { Out(s, AfterClose(x, o), f,
               [ c EXCEPT !.stage = "sl_unverified", !.orders = Append(@, o) ])
           : o \in EmergencyCloseOrders(x, sig.symbol, side, qty) }
    : sl_verified \in { _verify_sl_placement(x, sig.symbol, polls)
                        : polls \in PollOutcomes } }

\* Step 3 of execute_trade, _place_market_order, and what follows it
PlaceOrder(s, x, f, c, sig, side, qty, t) ==
  LET sym == sig.symbol
      order(r) == EntryOrder(sym, side, qty, sig.stop_loss, sig.take_profit_1, r)
      \* the exchange after the order was executed at price fill, with the
      \* stop loss attached or not
      live(fill, attached) ==
        OpenOnExchange(x, sym, side, qty, fill,
                       IF attached THEN sig.stop_loss ELSE 0, sig.take_profit_1)
  IN  { Out(s, x, f, [ c EXCEPT !.stage = "order_failed",
                                !.orders = << order("failed") >> ]) }
      \cup
      { Out(s, live(fill, attached), f,
            [ c EXCEPT !.stage = "order_failed", !.orders = << order("lost") >>,
                       !.entry_live = TRUE ])
        : fill \in Prices(sym), attached \in BOOLEAN }
      \cup
      UNION { UNION { AfterOrder(s, live(fill, attached), f,
                                 [ c EXCEPT !.orders = << order("ok") >>,
                                            !.entry_live = TRUE ],
                                 sig, side, qty, entry_price, t)
                      \* the fill price read back, 0 when the ticker read failed
                      : entry_price \in {0, fill} }
              : fill \in Prices(sym), attached \in BOOLEAN }

\* seeded fault: the answer of the risk validator is not looked at
VetoIgnored(v) == FALSE

\* "if not allowed": the veto of the risk validator
Vetoed(v) == ~ v.allowed

\* Steps 1 and 2 of execute_trade: validate and size
ValidateAndSize(s, x, f, c, sig, side, t) ==
  UNION {
    LET v == vb[1]
        balance == vb[2]
        \* what validate_trade answered
        c2 == [ c EXCEPT !.validated = IF v.allowed THEN "allowed" ELSE v.reason ]
    IN
    IF Vetoed(v)
    THEN { Out(v.st, x, f, [ c2 EXCEPT !.stage = "rejected" ]) }
    ELSE UNION {
      LET sizing_price == IF current_price > 0 THEN current_price ELSE sig.entry_price
          qty == calculate_position_size(sizing_price, sig.stop_loss, balance, info)
          c3 == [ c2 EXCEPT !.price = current_price ]
      IN  IF qty <= 0
          THEN { Out(v.st, x, f, [ c3 EXCEPT !.stage = "size_zero" ]) }
          ELSE PlaceOrder(v.st, x, f, c3, v.sig, side, qty, t)
      : current_price \in PriceReads(sig.symbol), info \in InstrumentInfos }
    : vb \in { << validate_trade(s, sig, balance, q, t), balance >>
               : balance \in Balances, q \in PositionQueries(x) } }

\* seeded fault: the local positions are not looked at
LocalPositionIgnored(s) == FALSE

\* Step 0 of execute_trade, local part: "if self.state.open_positions"
LocalPositionOpen(s) == s.open_positions # << >>

\* execute_trade(signal) at time t, from trading state s, exchange x and
\* state file f: the set of its possible outcomes
execute_trade(s, x, f, sig, t) ==
  LET c == [ NoCall EXCEPT !.op = "execute_trade" ]
      side == IF sig.action = "BUY" THEN "Buy" ELSE "Sell"
      tp2 == IF sig.take_profit_2 <= 0 /\ sig.take_profit_1 > 0
             THEN sig.take_profit_1 ELSE sig.take_profit_2
      sig1 == [ sig EXCEPT !.take_profit_2 = tp2 ]
  IN  IF sig.action = "HOLD"
      THEN { Out(s, x, f, [ c EXCEPT !.stage = "hold" ]) }
      ELSE IF sig.entry_price <= 0 \/ sig.stop_loss <= 0 \/ sig.take_profit_1 <= 0
      THEN { Out(s, x, f, [ c EXCEPT !.stage = "invalid_prices" ]) }
      ELSE IF LocalPositionOpen(s)
      THEN { Out(s, x, f, [ c EXCEPT !.stage = "precheck", !.precheck = "local" ]) }
      ELSE UNION {
        IF ~ q.ok
        THEN { Out(s, x, f, [ c EXCEPT !.stage = "precheck", !.precheck = "query_failed" ]) }
        ELSE IF HasOpenPosition(q.list)
        THEN { Out(s, x, f, [ c EXCEPT !.stage = "precheck", !.precheck = "exchange" ]) }
        ELSE ValidateAndSize(s, x, f,
                             [ c EXCEPT !.precheck = "passed",
                                        !.confidence = sig.confidence ],
                             sig1, side, t)
        : q \in PositionQueries(x) }

(***************************************************************************)
(* position_monitor.py: PositionMonitor                                    *)
(***************************************************************************)
\* closedPnl values get_closed_pnl can report for the position; 0 stands
\* for no matching record, a zero record or a failed call
ClosedPnls == env.closed_pnls

\* index of the first element of list equal to pos (list.remove(pos))
IndexOf(list, pos) == CHOOSE i \in DOMAIN list :
                        list[i] = pos /\ \A j \in 1..(i - 1) : list[j] # pos

RemoveAt(list, k) == [ i \in 1..(Len(list) - 1) |-> IF i < k THEN list[i] ELSE list[i + 1] ]

\* the fallback estimate of _handle_closed_position, price = 0 standing for
\* a failed ticker read
estimate_pnl(pos, price) ==
  LET p == IF price > 0 THEN price ELSE pos.entry_price IN
  IF pos.side = "Buy"
  THEN ((p - pos.entry_price) * pos.qty) \div QTY_DEN
  ELSE ((pos.entry_price - p) * pos.qty) \div QTY_DEN

\* _handle_closed_position(pos), pos being element k of open_positions
_handle_closed_position(o, k, t) ==
  LET pos == o.st.open_positions[k] IN
  { LET pnl == IF closed # 0 THEN closed ELSE estimate_pnl(pos, price)
        r == record_trade(o.st, pnl, t)
        s1 == IF r.ret THEN activate_circuit_breaker(r.st, t) ELSE r.st
        s2 == [ s1 EXCEPT !.open_positions = RemoveAt(@, k) ]
    IN  Out(s2, o.exch, s2,
            [ o.call EXCEPT
                !.trades = Append(@, [ pnl |-> pnl,
                                       before |-> o.st.consecutive_losses,
                                       ret |-> r.ret ]),
                !.activated = @ \/ r.ret ])
    : closed \in ClosedPnls, price \in PriceReads(pos.symbol) }

\* A step of the monitor on one position: the position, the exchange and the
\* orders sent so far
Step(pos, x, orders) == [ pos |-> pos, exch |-> x, orders |-> orders ]

\* seeded fault: the target of a long is never seen as reached
hit_tp1_short_only(pos, current_price) ==
  pos.side = "Sell" /\ current_price <= pos.take_profit_1

hit_tp1(pos, current_price) ==
  \/ pos.side = "Buy" /\ current_price >= pos.take_profit_1
  \/ pos.side = "Sell" /\ current_price <= pos.take_profit_1

\* the quantity _check_tp1_partial closes: PARTIAL_CLOSE_PCT of original_qty,
\* rounded to the lot step when the instrument data can be read
partial_close_qty(pos, info) ==
  LET close_qty == (pos.original_qty * PARTIAL_CLOSE_PCT) \div 100 IN
  IF info.ok
  THEN FormatG(Max(info.minOrderQty,
                   RoundHalfEven(pos.original_qty * PARTIAL_CLOSE_PCT, 100 * info.qtyStep)
                     * info.qtyStep))
  ELSE close_qty

\* set_trading_stop(stopLoss = sl) on the exchange
SetStop(x, sym, sl) == [ x EXCEPT ![sym].stopLoss = sl ]

\* _move_sl_to_breakeven: set_trading_stop succeeds or raises
_move_sl_to_breakeven(w) ==
  { Step([ w.pos EXCEPT !.stop_loss = w.pos.entry_price, !.breakeven_activated = TRUE ],
         SetStop(w.exch, w.pos.symbol, w.pos.entry_price), w.orders),
    w }

_check_tp1_partial(w, current_price) ==
  LET pos == w.pos IN
  IF pos.take_profit_1 <= 0 \/ ~ hit_tp1(pos, current_price) THEN { w }
  ELSE UNION {
    LET close_qty == partial_close_qty(pos, info)
        close_side == CloseSide(pos.side)
    IN  UNION {
          LET o == CloseOrder(pos.symbol, close_side, close_qty, r)
              w1 == Step(pos, AfterClose(w.exch, o), Append(w.orders, o))
          IN  IF r = "ok"
              THEN _move_sl_to_breakeven(
                     [ w1 EXCEPT !.pos.partial_filled = TRUE,
                                 !.pos.qty = pos.original_qty - close_qty ])
              ELSE { w1 }
          : r \in IF CanReduce(w.exch, pos.symbol, close_side)
                  THEN OrderResults ELSE {"failed"} }
    : info \in InstrumentInfos }

\* seeded fault: the new stop replaces the old one, better or not
_update_trailing_stop_loose(w, current_price) ==
  LET pos == w.pos
      trail_distance == pos.atr * TRAILING_ATR_MULT
      new_sl == IF pos.side = "Buy" THEN current_price - trail_distance
                ELSE current_price + trail_distance
  IN  IF pos.atr <= 0 THEN { w }
      ELSE { Step([ pos EXCEPT !.stop_loss = new_sl, !.trailing_activated = TRUE ],
                  SetStop(w.exch, pos.symbol, new_sl), w.orders),
             w }

_update_trailing_stop(w, current_price) ==
  LET pos == w.pos
      trail_distance == pos.atr * TRAILING_ATR_MULT
      new_sl == IF pos.side = "Buy" THEN current_price - trail_distance
                ELSE current_price + trail_distance
      better == IF pos.side = "Buy" THEN new_sl > pos.stop_loss
                ELSE new_sl < pos.stop_loss
  IN  IF pos.atr <= 0 \/ ~ better THEN { w }
      ELSE { Step([ pos EXCEPT !.stop_loss = new_sl, !.trailing_activated = TRUE ],
                  SetStop(w.exch, pos.symbol, new_sl), w.orders),
             w }

_force_close(w) ==
  LET close_side == CloseSide(w.pos.side) IN
  { LET o == CloseOrder(w.pos.symbol, close_side, w.pos.qty, r) IN
    Step(w.pos, AfterClose(w.exch, o), Append(w.orders, o))
    : r \in IF CanReduce(w.exch, w.pos.symbol, close_side)
            THEN OrderResults ELSE {"failed"} }

\* the body of the loop of check_positions for a position that the
\* exchange still shows open with size bybit_size
manage_position(w0, bybit_size, current_price, t) ==
  LET w == IF bybit_size < w0.pos.qty /\ bybit_size > 0
           THEN [ w0 EXCEPT !.pos.qty = bybit_size ] ELSE w0
      a == IF ~ w.pos.partial_filled THEN _check_tp1_partial(w, current_price) ELSE { w }
      b == UNION { IF wa.pos.partial_filled
                   THEN _update_trailing_stop(wa, current_price) ELSE { wa }
                   : wa \in a }
  IN  UNION { IF t - wb.pos.timestamp >= MAX_HOLD_HOURS THEN _force_close(wb) ELSE { wb }
              : wb \in b }

\* one iteration of the loop of check_positions, for the position pos
check_one_position(o, pos, t) ==
  LET k == IndexOf(o.st.open_positions, pos)
      sym == pos.symbol
  IN  UNION {
        IF current_price = 0 THEN { o }
        ELSE UNION {
          IF bybit_size = 0
          THEN _handle_closed_position([ o EXCEPT !.call.price = current_price ], k, t)
          ELSE { Out([ o.st EXCEPT !.open_positions[k] = w.pos ], w.exch, o.file,
                     [ o.call EXCEPT !.orders = w.orders, !.price = current_price ])
                 : w \in manage_position(Step(pos, o.exch, o.call.orders),
                                         bybit_size, current_price, t) }
          \* _get_exchange_position_size: the size, or 0 when the query raises
          : bybit_size \in { o.exch[sym].size, 0 } }
        : current_price \in PriceReads(sym) }

RECURSIVE check_each_position(_, _, _, _)
check_each_position(o, snapshot, i, t) ==
  IF i > Len(snapshot) THEN { o }
  ELSE UNION { check_each_position(o2, snapshot, i + 1, t)
               : o2 \in check_one_position(o, snapshot[i], t) }

orphan_record(p, t) ==
  [ order_id |-> "orphan_reconciled",
    symbol |-> p.symbol,
    side |-> p.side,
    qty |-> p.size,
    original_qty |-> p.size,
    entry_price |-> p.avgPrice,
    stop_loss |-> p.stopLoss,
    take_profit_1 |-> p.takeProfit,
    take_profit_2 |-> p.takeProfit,
    confidence |-> 0,
    risk_reward_ratio |-> 0,
    timestamp |-> t,
    partial_filled |-> FALSE,
    trailing_activated |-> FALSE,
    breakeven_activated |-> FALSE,
    atr |-> 0 ]

\* seeded fault: the pass only logs the positions it finds
adopt_orphans_logged_only(positions, list, t) == positions

RECURSIVE adopt_orphans(_, _, _)
adopt_orphans(positions, list, t) ==
  IF list = << >> THEN positions
  ELSE adopt_orphans(IF Head(list).size > 0
                     THEN Append(positions, orphan_record(Head(list), t))
                     ELSE positions,
                     Tail(list), t)

_check_orphaned_positions(o, t) ==
  { IF ~ q.ok THEN [ o EXCEPT !.call.precheck = "query_failed" ]
    ELSE LET adopted == adopt_orphans(o.st.open_positions, q.list, t)
             s2 == [ o.st EXCEPT !.open_positions = adopted ]
         IN  IF Len(adopted) = Len(o.st.open_positions) THEN o
             ELSE Out(s2, o.exch, s2,
                      [ o.call EXCEPT !.adopted = Len(adopted) - Len(o.st.open_positions) ])
    : q \in PositionQueries(o.exch) }

\* check_positions() at time t: the set of its possible outcomes
check_positions(s, x, f, t) ==
  LET o == Out(s, x, f, [ NoCall EXCEPT !.op = "check_positions" ]) IN
  IF s.open_positions = << >> THEN _check_orphaned_positions(o, t)
  ELSE check_each_position(o, s.open_positions, 1, t)

(***************************************************************************)
(* main.py: GeminiTradingBot                                               *)
(***************************************************************************)
\* what the decision provider can return to the analysis cycle and the
\* cycle passes on to execute_trade
PassedOn == { sig \in Signals : Upper(sig.action) # "HOLD"
                                /\ ~ (sig.confidence < MIN_CONFIDENCE) }

\* _run_analysis_cycle() at time t: the set of its possible outcomes
_run_analysis_cycle(s, x, f, t) ==
  LET c == [ NoCall EXCEPT !.op = "analysis" ]
      s1 == reset_daily_if_needed(s, t)
  IN  IF s1.open_positions # << >>
      THEN { Out(s1, x, f, [ c EXCEPT !.stage = "position_open" ]) }
      ELSE UNION {
        IF has_position
        THEN { Out(s1, x, f, [ c EXCEPT !.stage = "exchange_position" ]) }
        ELSE UNION {
          IF ~ v.allowed
          THEN { Out(v.st, x, f, [ c EXCEPT !.stage = "cannot_trade", !.gate = v.reason ]) }
          ELSE { Out(v.st, x, f, [ c EXCEPT !.stage = "no_signal", !.gate = "allowed" ]) }
               \cup
               { [ o EXCEPT !.call.gate = "allowed" ]
                 : o \in UNION { execute_trade(v.st, x, f, sig, t) : sig \in PassedOn } }
          : v \in { validate_trade(s1, PreCheckSignal, balance, q2, t)
                    : balance \in Balances, q2 \in PositionQueries(x) } }
        \* a query that raises counts as no position
        : has_position \in { q.ok /\ HasOpenPosition(q.list)
                             : q \in PositionQueries(x) } }

\* What the state file holds: the JSON object of a saved state (a record of
\* its fields, all of them or some), or
Missing == [ kind |-> "missing" ]        \* there is no such file
Corrupt == [ kind |-> "corrupt" ]        \* the file is not a JSON object
Unreadable == [ kind |-> "unreadable" ]  \* open() raises

IsDocument(f) == "kind" \notin DOMAIN f

\* the fields as read with data.get(name, default)
restore_fields(data, t) ==
  [ daily_pnl |-> DictGet(data, "daily_pnl", 0),
    total_pnl |-> DictGet(data, "total_pnl", 0),
    peak_balance |-> DictGet(data, "peak_balance", ACCOUNT_SIZE),
    trades_today |-> DictGet(data, "trades_today", 0),
    wins_today |-> DictGet(data, "wins_today", 0),
    losses_today |-> DictGet(data, "losses_today", 0),
    consecutive_losses |-> DictGet(data, "consecutive_losses", 0),
    winning_streak |-> DictGet(data, "winning_streak", 0),
    circuit_breaker_until |-> DictGet(data, "circuit_breaker_until", NoTime),
    last_daily_reset |-> DictGet(data, "last_daily_reset", Today(t)),
    open_positions |-> DictGet(data, "open_positions", << >>),
    daily_profit_by_date |-> DictGet(data, "daily_profit_by_date", EmptyDict),
    trading_days |-> DictGet(data, "trading_days", {}) ]

\* the try block of load_from_file: open, json.load, the fields,
\* reset_daily_if_needed
restore_state(f, t) ==
  IF ~ IsDocument(f)
  THEN [ raised |-> TRUE, st |-> FreshState(Today(t)) ]
  ELSE [ raised |-> FALSE, st |-> reset_daily_if_needed(restore_fields(f, t), t) ]

\* seeded fault: no except clause around the try block
load_from_file_uncaught(f, t) ==
  IF f = Missing
  THEN [ raised |-> FALSE, st |-> FreshState(Today(t)) ]
  ELSE restore_state(f, t)

\* seeded fault: the state file is not read
load_from_file_ignoring(f, t) == [ raised |-> FALSE, st |-> FreshState(Today(t)) ]

\* load_from_file() at time t, the state file holding f: whether it raised,
\* and the state returned
load_from_file(f, t) ==
  IF f = Missing
  THEN [ raised |-> FALSE, st |-> FreshState(Today(t)) ]
  ELSE LET r == restore_state(f, t) IN
       IF r.raised THEN [ raised |-> FALSE, st |-> FreshState(Today(t)) ] ELSE r

(***************************************************************************)
(* The system                                                              *)
(***************************************************************************)

\* no temporary file; no direct call
NoFile == [ kind |-> "none" ]
NoProbe == [ fn |-> "none" ]

\* the temporary file of mkstemp before, during and after json.dump
TempFile(data, written) == [ kind |-> "temp", data |-> data, written |-> written ]

\* seeded fault: the target is opened for writing and written in place
save_to_file_in_place(stage, data, f, tp) ==
  CASE stage = "none" ->
         [ stage |-> "mkstemp", file |-> TempFile(data, "nothing"), tmp |-> NoFile ]
    [] stage = "mkstemp" ->
         [ stage |-> "dump", file |-> TempFile(data, "part"), tmp |-> NoFile ]
    [] stage = "dump" ->
         [ stage |-> "dumped", file |-> TempFile(data, "all"), tmp |-> NoFile ]
    [] stage = "dumped" ->
         [ stage |-> "replaced", file |-> data, tmp |-> NoFile ]

\* One step of save_to_file's try block, from the stage reached: mkstemp,
\* json.dump (in two writes), the end of the with block, os.replace.  data is
\* the dict built from the state, f the state file, tp the temporary file.
save_to_file(stage, data, f, tp) ==
  CASE stage = "none" ->
         [ stage |-> "mkstemp", file |-> f, tmp |-> TempFile(data, "nothing") ]
    [] stage = "mkstemp" ->
         [ stage |-> "dump", file |-> f, tmp |-> [ tp EXCEPT !.written = "part" ] ]
    [] stage = "dump" ->
         [ stage |-> "dumped", file |-> f, tmp |-> [ tp EXCEPT !.written = "all" ] ]
    [] stage = "dumped" ->
         [ stage |-> "replaced", file |-> tp.data, tmp |-> NoFile ]

SaveStages == { "none", "mkstemp", "dump", "dumped" }

\* a position someone else opens on the account
ExternalPosition ==
  [ symbol |-> OtherSymbol, side |-> "Buy", size |-> 2, avgPrice |-> 20000,
    stopLoss |-> 0, takeProfit |-> 0, leverage |-> 10 ]

\* the bot has just been started for the first time, on a flat account
Started ==
  /\ st = FreshState(0)
  /\ file = FreshState(0)
  /\ exch = [ sym \in SymbolSet |-> Flat(sym) ]
  /\ now = 0
  /\ call = NoCall
  /\ nrec = 0
  /\ loss_run = 0
  /\ cb_activated_at = NoTime
  /\ tmp = NoFile
  /\ probe = NoProbe
  /\ adopted_open = {}

\* An account that others trade on too: the price stands at the short
\* target, the equity reads low at times, a closed position's PnL is
\* reported or has to be estimated.
Init ==
  /\ Started
  /\ env = [ prices |-> {100}, balances |-> {9500},
             closed_pnls |-> {0 - 150, 0}, records |-> MaxRecordedShared ]

\* Days of trading on an account of the bot's own: the price stands between
\* stop and target, every closed position's PnL is reported, at a loss or a
\* profit.
InitRisk ==
  /\ Started
  /\ env = [ prices |-> {102}, balances |-> {},
             closed_pnls |-> {0 - 150, 150}, records |-> MaxRecorded ]

Idle == call.op = "none"

\* loss_run after the record_trade calls of a monitor pass
RECURSIVE RunAfter(_, _)
RunAfter(run, trades) ==
  IF trades = << >> THEN run
  ELSE LET tr == Head(trades) IN
       RunAfter(IF tr.pnl < 0
                THEN (IF tr.before = 0 THEN 1 ELSE IF run > 0 THEN run + 1 ELSE 0)
                ELSE IF tr.pnl > 0 THEN 0 ELSE run,
                Tail(trades))

\* the symbols of the orphans adopted in the call that ended with outcome o
NewOrphans(o) ==
  { o.st.open_positions[k].symbol
    : k \in (Len(o.st.open_positions) - o.call.adopted + 1)..Len(o.st.open_positions) }

\* the variables after a handler ended with outcome o
Becomes(o) ==
  /\ st' = o.st
  /\ exch' = o.exch
  /\ file' = o.file
  /\ call' = o.call
  /\ nrec' = nrec + Len(o.call.trades)
  /\ loss_run' = RunAfter(loss_run, o.call.trades)
  /\ cb_activated_at' = IF o.call.activated THEN now ELSE cb_activated_at
  /\ adopted_open' = { sym \in adopted_open \cup NewOrphans(o) : o.exch[sym].size > 0 }
  /\ UNCHANGED << now, env, tmp, probe >>

ExecuteTrade ==
  /\ Idle
  /\ \E sig \in Signals : \E o \in execute_trade(st, exch, file, sig, now) : Becomes(o)

CheckPositions ==
  /\ Idle
  /\ nrec < env.records
  /\ \E o \in check_positions(st, exch, file, now) : Becomes(o)

RunAnalysisCycle ==
  /\ Idle
  /\ \E o \in _run_analysis_cycle(st, exch, file, now) : Becomes(o)

\* the end of a main-loop iteration: save_to_file()
SaveState ==
  /\ Idle
  /\ file # st
  /\ file' = st
  /\ UNCHANGED << st, exch, now, call, nrec, loss_run, cb_activated_at, env, tmp, probe, adopted_open >>

\* the process is killed and started again: __init__ loads the state file
Restart ==
  /\ Idle
  /\ st' = load_from_file(file, now).st
  /\ UNCHANGED << file, exch, now, call, nrec, loss_run, cb_activated_at, env, tmp, probe, adopted_open >>

\* the operation returns
Return ==
  /\ ~ Idle
  /\ call' = NoCall
  /\ UNCHANGED << st, file, exch, now, nrec, loss_run, cb_activated_at, env, tmp, probe, adopted_open >>

Tick ==
  /\ Idle
  /\ now + TickHours <= MaxTime
  /\ now' = now + TickHours
  /\ UNCHANGED << st, file, exch, call, nrec, loss_run, cb_activated_at, env, tmp, probe, adopted_open >>

\* the exchange closes a position: stop loss, take profit, liquidation or
\* a manual close
ExchangeClose ==
  /\ Idle
  /\ \E sym \in SymbolSet :
       /\ exch[sym].size > 0
       /\ exch' = [ exch EXCEPT ![sym] = Flat(sym) ]
       /\ adopted_open' = adopted_open \ {sym}
  /\ UNCHANGED << st, file, now, call, nrec, loss_run, cb_activated_at, env, tmp, probe >>

\* someone else opens a position on the account
ExternalOpen ==
  /\ Idle
  /\ exch[OtherSymbol].size = 0
  /\ exch' = [ exch EXCEPT ![OtherSymbol] = ExternalPosition ]
  /\ UNCHANGED << st, file, now, call, nrec, loss_run, cb_activated_at, env, tmp, probe, adopted_open >>

Next ==
  \/ ExecuteTrade
  \/ CheckPositions
  \/ RunAnalysisCycle
  \/ SaveState
  \/ Restart
  \/ Return
  \/ ExchangeClose
  \/ ExternalOpen

Spec == Init /\ [][Next]_vars

\* the risk rules over days of trading: the account is the bot's alone
NextRisk ==
  \/ ExecuteTrade
  \/ CheckPositions
  \/ RunAnalysisCycle
  \/ SaveState
  \/ Restart
  \/ Return
  \/ Tick
  \/ ExchangeClose

SpecRisk == InitRisk /\ [][NextRisk]_vars

\* A position from entry to exit on an account of the bot's own.  The bot,
\* just started on a flat account, has made its first execute_trade call;
\* the price moves between the long entry, the long target and beyond, and
\* a closed position's PnL is reported.
InitMonitor ==
  /\ env = [ prices |-> {100, 104, 108}, balances |-> {},
             closed_pnls |-> {150}, records |-> MaxRecordedShared ]
  /\ now = 0
  /\ call = NoCall
  /\ nrec = 0
  /\ loss_run = 0
  /\ cb_activated_at = NoTime
  /\ tmp = NoFile
  /\ probe = NoProbe
  /\ adopted_open = {}
  /\ \E sig \in Signals :
       \E o \in execute_trade(FreshState(0), [ sym \in SymbolSet |-> Flat(sym) ],
                              FreshState(0), sig, 0) :
         /\ st = o.st
         /\ exch = o.exch
         /\ file = o.file

NextMonitor ==
  \/ CheckPositions
  \/ Return
  \/ Tick
  \/ ExchangeClose

SpecMonitor == InitMonitor /\ [][NextMonitor]_vars

(***************************************************************************)
(* The risk validator called on its own: validate_trade and                *)
(* calculate_position_size on any signal and any instrument, not only on   *)
(* those execute_trade lets through.                                       *)
(***************************************************************************)
\* the signals validate_trade can be given: take_profit_1 may be absent (0)
\* or as far from the entry as the stop loss (102)
SignalsOffered ==
  [ symbol : {BotSymbol}, action : {"BUY", "SELL"}, confidence : Confidences,
    entry_price : EntryPrices, stop_loss : StopLosses,
    take_profit_1 : TakeProfits \cup {0, 102}, take_profit_2 : {0},
    risk_reward_ratio : RiskRewards, atr : Atrs ]

\* lot step and minimum order quantity of an instrument, in units of
\* 1/QTY_DEN contract: steps of 0.5, 1 and 10, minima of 0.5, 1 and 100
InstrumentsOffered ==
  [ ok : BOOLEAN, qtyStep : {1, 2, 20}, minOrderQty : {1, 2, 200} ]

\* entry (the sizing price) and stop loss given to calculate_position_size
SizingPrices == {100, 104, 170}
SizingStops == {98, 104, 168}

\* balance is the balance the call was given, queried whether its positions
\* query was answered, and left the signal dict as the call leaves it
ValidateCalls ==
  { [ fn |-> "validate_trade", sig |-> sig, done |-> FALSE, allowed |-> FALSE,
      reason |-> "none", balance |-> 0, queried |-> FALSE, left |-> sig ]
    : sig \in SignalsOffered }

\* the account validate_trade is called on: flat, or with a position of
\* another symbol held at 10x leverage, of margin $1400 or $2800
HeldElsewhere(size) ==
  [ symbol |-> OtherSymbol, side |-> "Buy", size |-> size, avgPrice |-> 28000,
    stopLoss |-> 0, takeProfit |-> 0, leverage |-> 10 ]

AccountsOffered ==
  { [ sym \in SymbolSet |-> Flat(sym) ] }
  \cup { [ [ sym \in SymbolSet |-> Flat(sym) ] EXCEPT ![OtherSymbol] = HeldElsewhere(size) ]
         : size \in {1, 2} }

\* the action strings GeminiAnalyzer.analyze returns a result for: those
\* whose upper() is BUY, SELL or HOLD; the result keeps the string as the
\* decision provider wrote it
AnalyzerActions ==
  { a \in {"BUY", "SELL", "HOLD", "buy", "sell", "hold", "LONG"}
    : Upper(a) \in {"BUY", "SELL", "HOLD"} }

\* the results the analysis cycle hands to execute_trade: not HOLD after
\* upper(), confidence not below MIN_CONFIDENCE
AnalysisResults ==
  { sig \in [ symbol : {BotSymbol}, action : AnalyzerActions, confidence : Confidences,
              entry_price : {100}, stop_loss : StopLosses,
              take_profit_1 : TakeProfits, take_profit_2 : {0},
              risk_reward_ratio : {200}, atr : Atrs ]
    : Upper(sig.action) # "HOLD" /\ ~ (sig.confidence < MIN_CONFIDENCE) }

ExecuteCalls ==
  [ fn : {"execute_trade"}, sig : AnalysisResults, done : {FALSE} ]

SizeCalls ==
  [ fn : {"calculate_position_size"}, entry : SizingPrices, sl : SizingStops,
    balance : {9500, ACCOUNT_SIZE}, info : InstrumentsOffered, done : {FALSE},
    qty : {0} ]

\* states a bot has saved: untouched; after a winning trade on day 0; after
\* a losing trade on day 1 as well
SavedStates ==
  LET won == record_trade_state(FreshState(0), 150, 0) IN
  { FreshState(0), won, record_trade_state(won, 0 - 150, HoursPerDay) }

\* the fields an older or a hand-edited state file may lack: none, any one,
\* or all of them
FieldNames == DOMAIN FreshState(0)
LackingFields == { {} } \cup { {n} : n \in FieldNames } \cup { FieldNames }

FileContents ==
  { Missing, Corrupt, Unreadable }
    \cup { [ n \in FieldNames \ lacking |-> s[n] ]
           : s \in SavedStates, lacking \in LackingFields }

LoadCalls ==
  [ fn : {"load_from_file"}, content : FileContents,
    at : { d * HoursPerDay : d \in Days }, done : {FALSE}, raised : {FALSE} ]

\* a long position as execute_trade records it
HeldPosition ==
  position_record(
    [ symbol |-> BotSymbol, action |-> "BUY", confidence |-> 8, entry_price |-> 100,
      stop_loss |-> 98, take_profit_1 |-> 104, take_profit_2 |-> 0,
      risk_reward_ratio |-> 200, atr |-> 2 ],
    "Buy", 10, 100, 0)

\* states of a running bot: the saved states, flat or holding a position
\* with a circuit-breaker pause set
RunningStates ==
  SavedStates
    \cup { [ s EXCEPT !.open_positions = << HeldPosition >>,
                      !.circuit_breaker_until = 36 ] : s \in SavedStates }

\* save_to_file() on a state, then load_from_file() on or after the date of
\* the state's last daily reset
RoundTripCalls ==
  { c \in [ fn : {"round_trip"}, state : RunningStates,
            at : { d * HoursPerDay : d \in Days }, done : {FALSE} ]
    : Today(c.at) >= c.state.last_daily_reset }

\* the state file after a save_to_file call on data that ran to its end
saved_file(data, f) ==
  LET a == save_to_file("none", data, f, NoFile)
      b == save_to_file(a.stage, data, a.file, a.tmp)
      c == save_to_file(b.stage, data, b.file, b.tmp)
      d == save_to_file(c.stage, data, c.file, c.tmp)
  IN  d.file

\* The states of a bot that has recorded n trades, MAX_TRADES_PER_DAY a day
\* from day 0 on, each lost or won at the fixed risk amount or closed at
\* break-even.
MaxStreak == 4
TradePnls == { 0 - FIXED_RISK_AMOUNT, 0, FIXED_RISK_AMOUNT }
TradedAt(k) == ((k - 1) \div MAX_TRADES_PER_DAY) * HoursPerDay
RECURSIVE TradedStates(_)
TradedStates(n) ==
  IF n = 0 THEN { FreshState(0) }
  ELSE { record_trade_state(s, pnl, TradedAt(n))
         : s \in TradedStates(n - 1), pnl \in TradePnls }

\* the next record_trade call of such a bot
RecordCalls ==
  UNION { [ fn : {"record_trade"}, state : TradedStates(n), pnl : TradePnls,
            at : { TradedAt(n + 1) }, done : {FALSE}, ret : {FALSE} ]
          : n \in 0..MaxStreak }

\* The states of a bot that has traded on n days in a row from day 0 on,
\* one trade a day, lost at the fixed risk amount or won at three or five
\* times that; and the same bot on the morning after, before any trade.
MaxDistributionDays == 6
DayPnls == { 0 - FIXED_RISK_AMOUNT, 3 * FIXED_RISK_AMOUNT, 5 * FIXED_RISK_AMOUNT }

RECURSIVE TradingDaysStates(_)
TradingDaysStates(n) ==
  IF n = 0 THEN { FreshState(0) }
  ELSE { record_trade_state(s, pnl, (n - 1) * HoursPerDay)
         : s \in TradingDaysStates(n - 1), pnl \in DayPnls }

\* _check_profit_distribution() on the day of the last trade or on the
\* morning after
DistributionCalls ==
  UNION { [ fn : {"_check_profit_distribution"}, state : TradingDaysStates(n),
            at : { (n - 1) * HoursPerDay }, done : {FALSE}, ret : {FALSE} ]
          \cup [ fn : {"_check_profit_distribution"},
                 state : { reset_daily_if_needed(s, n * HoursPerDay)
                           : s \in TradingDaysStates(n) },
                 at : { n * HoursPerDay }, done : {FALSE}, ret : {FALSE} ]
          : n \in (MaxDistributionDays - 2)..MaxDistributionDays }

\* a freshly started bot on a flat account, about to make one call
InitCalls ==
  /\ st = FreshState(0)
  /\ file = FreshState(0)
  /\ now = 0
  /\ call = NoCall
  /\ nrec = 0
  /\ loss_run = 0
  /\ cb_activated_at = NoTime
  /\ env = [ prices |-> {100}, balances |-> {9500},
             closed_pnls |-> {0}, records |-> 0 ]
  /\ tmp = NoFile
  /\ probe \in ValidateCalls \cup SizeCalls \cup LoadCalls \cup RoundTripCalls
                \cup RecordCalls \cup DistributionCalls \cup ExecuteCalls
  /\ exch \in IF probe.fn = "validate_trade" THEN AccountsOffered
               ELSE { [ sym \in SymbolSet |-> Flat(sym) ] }
  /\ adopted_open = {}

\* validate_trade(signal, balance)
ValidateTrade ==
  /\ probe.fn = "validate_trade"
  /\ ~ probe.done
  /\ \E balance \in Balances : \E q \in PositionQueries(exch) :
       LET v == validate_trade(st, probe.sig, balance, q, now) IN
       /\ st' = v.st
       /\ probe' = [ probe EXCEPT !.done = TRUE, !.allowed = v.allowed,
                                  !.reason = v.reason, !.balance = balance,
                                  !.queried = q.ok, !.left = v.sig ]
  /\ UNCHANGED << file, exch, now, call, nrec, loss_run, cb_activated_at, env, tmp, adopted_open >>

\* execute_trade(result), as the analysis cycle calls it
ExecuteTradeCall ==
  /\ probe.fn = "execute_trade"
  /\ ~ probe.done
  /\ \E o \in execute_trade(st, exch, file, probe.sig, now) :
       /\ st' = o.st
       /\ exch' = o.exch
       /\ file' = o.file
       /\ call' = o.call
  /\ probe' = [ probe EXCEPT !.done = TRUE ]
  /\ UNCHANGED << now, nrec, loss_run, cb_activated_at, env, tmp, adopted_open >>

\* calculate_position_size(symbol, entry, sl, confidence, balance)
CalculatePositionSize ==
  /\ probe.fn = "calculate_position_size"
  /\ ~ probe.done
  /\ probe' = [ probe EXCEPT
                  !.done = TRUE,
                  !.qty = calculate_position_size(probe.entry, probe.sl,
                                                  probe.balance, probe.info) ]
  /\ UNCHANGED << st, file, exch, now, call, nrec, loss_run, cb_activated_at, env, tmp, adopted_open >>

\* TradingState.load_from_file() at time probe.at, the state file holding
\* probe.content
LoadFromFile ==
  /\ probe.fn = "load_from_file"
  /\ ~ probe.done
  /\ LET r == load_from_file(probe.content, probe.at) IN
       /\ st' = r.st
       /\ probe' = [ probe EXCEPT !.done = TRUE, !.raised = r.raised ]
  /\ UNCHANGED << file, exch, now, call, nrec, loss_run, cb_activated_at, env, tmp, adopted_open >>

\* state.save_to_file(), then TradingState.load_from_file() at time probe.at
SaveThenLoad ==
  /\ probe.fn = "round_trip"
  /\ ~ probe.done
  /\ file' = saved_file(probe.state, file)
  /\ st' = load_from_file(file', probe.at).st
  /\ probe' = [ probe EXCEPT !.done = TRUE ]
  /\ UNCHANGED << exch, now, call, nrec, loss_run, cb_activated_at, env, tmp, adopted_open >>

\* record_trade(pnl, ...) on the state probe.state
RecordTradeCall ==
  /\ probe.fn = "record_trade"
  /\ ~ probe.done
  /\ LET r == record_trade(probe.state, probe.pnl, probe.at) IN
       /\ st' = r.st
       /\ probe' = [ probe EXCEPT !.done = TRUE, !.ret = r.ret ]
  /\ UNCHANGED << file, exch, now, call, nrec, loss_run, cb_activated_at, env, tmp, adopted_open >>

\* _check_profit_distribution() at time probe.at on the state probe.state
CheckProfitDistribution ==
  /\ probe.fn = "_check_profit_distribution"
  /\ ~ probe.done
  /\ st' = probe.state
  /\ probe' = [ probe EXCEPT !.done = TRUE,
                             !.ret = _check_profit_distribution(probe.state, probe.at) ]
  /\ UNCHANGED << file, exch, now, call, nrec, loss_run, cb_activated_at, env, tmp, adopted_open >>

NextCalls ==
  \/ CheckProfitDistribution
  \/ ValidateTrade
  \/ CalculatePositionSize
  \/ LoadFromFile
  \/ SaveThenLoad
  \/ RecordTradeCall
  \/ ExecuteTradeCall

SpecCalls == InitCalls /\ [][NextCalls]_vars

(***************************************************************************)
(* main.py: run().  probe is the frame of run(): pc is the statement it is *)
(* at, running the flag the signal handler clears, iteration the loop      *)
(* counter; saved and notified note what the shutdown did.                 *)
(***************************************************************************)
\* at most MaxIterations iterations of the main loop are started
MaxIterations == 2

\* save_to_file() as a whole: the file written, whether the error was
\* swallowed, whether it left the call.  A failure after mkstemp is caught
\* and the temporary file removed; when mkstemp itself raises, the handler's
\* reference to tmp_path raises in turn and the error leaves save_to_file.
save_to_file_call(data, f) ==
  { [ file |-> saved_file(data, f), saved |-> TRUE, raised |-> FALSE ],
    [ file |-> f, saved |-> FALSE, raised |-> FALSE ],
    [ file |-> f, saved |-> FALSE, raised |-> TRUE ] }

\* "while self.running"
LoopGoesOn(running) == running

InitLoop ==
  /\ st = FreshState(0)
  /\ file = FreshState(0)
  /\ exch = [ sym \in SymbolSet |-> Flat(sym) ]
  /\ now = 0
  /\ call = NoCall
  /\ nrec = 0
  /\ loss_run = 0
  /\ cb_activated_at = NoTime
  /\ tmp = NoFile
  /\ adopted_open = {}
  /\ env = [ prices |-> {100}, balances |-> {},
             closed_pnls |-> {0}, records |-> 0 ]
  /\ probe = [ fn |-> "run", pc |-> "while", running |-> TRUE, iteration |-> 0,
               last_daily_summary |-> NoTime, saved |-> FALSE, notified |-> FALSE,
               unrecorded |-> FALSE ]

At(pc) == probe.fn = "run" /\ probe.pc = pc

\* _signal_handler: SIGTERM or SIGINT arrives while run() is on the stack
SignalHandler ==
  /\ probe.pc \notin { "done", "raised" }
  /\ probe.running
  /\ probe' = [ probe EXCEPT !.running = FALSE ]
  /\ UNCHANGED << st, file, exch, now, call, nrec, loss_run, cb_activated_at, env, tmp, adopted_open >>

\* the test of the while statement, and "iteration += 1"
LoopTest ==
  /\ At("while")
  /\ IF LoopGoesOn(probe.running)
     THEN /\ probe.iteration < MaxIterations
          /\ probe' = [ probe EXCEPT !.pc = "check_positions", !.iteration = @ + 1 ]
     ELSE probe' = [ probe EXCEPT !.pc = "shutdown" ]
  /\ UNCHANGED << st, file, exch, now, call, nrec, loss_run, cb_activated_at, env, tmp, adopted_open >>

\* call keeps the record of the pass until the next handler runs
LoopCheckPositions ==
  /\ At("check_positions")
  /\ \E o \in check_positions(st, exch, file, now) :
       /\ st' = o.st
       /\ exch' = o.exch
       /\ file' = o.file
       /\ call' = o.call
  /\ probe' = [ probe EXCEPT !.pc = "daily_summary" ]
  /\ UNCHANGED << now, nrec, loss_run, cb_activated_at, env, tmp, adopted_open >>

\* _send_daily_summary: in the first minutes of a day, once a day
LoopDailySummary ==
  /\ At("daily_summary")
  /\ \/ /\ probe' = [ probe EXCEPT !.pc = "analysis" ]
        /\ UNCHANGED st
     \/ /\ now % HoursPerDay = 0
        /\ probe.last_daily_summary # Today(now)
        /\ \E balance \in Balances : st' = get_drawdown_pct(st, balance).st
        /\ probe' = [ probe EXCEPT !.pc = "analysis", !.last_daily_summary = Today(now) ]
  /\ UNCHANGED << file, exch, now, call, nrec, loss_run, cb_activated_at, env, tmp, adopted_open >>

\* the outcome of a cycle whose emergency close was not executed: the
\* position it opened is on the exchange and in no local record
LeftUnrecorded(o) ==
  /\ o.call.stage = "sl_unverified"
  /\ o.st.open_positions = << >>
  /\ \E sym \in SymbolSet : o.exch[sym].size > 0

\* "if self._should_run_analysis()": always in the first iteration
\* (last_analysis_time = 0), later when the interval has passed
\* unrecorded notes that a cycle has ended with its emergency close not
\* executed; call keeps the record of the cycle until the next handler runs
LoopAnalysis ==
  /\ At("analysis")
  /\ \/ /\ probe.iteration > 1
        /\ UNCHANGED << st, exch, file >>
        /\ call' = NoCall
        /\ probe' = [ probe EXCEPT !.pc = "save" ]
     \/ \E o \in _run_analysis_cycle(st, exch, file, now) :
          /\ st' = o.st
          /\ exch' = o.exch
          /\ file' = o.file
          /\ call' = o.call
          /\ probe' = [ probe EXCEPT !.pc = "save",
                                     !.unrecorded = @ \/ LeftUnrecorded(o) ]
  /\ UNCHANGED << now, nrec, loss_run, cb_activated_at, env, tmp, adopted_open >>

\* "self.state.save_to_file()" inside the try block of the loop
LoopSave ==
  /\ At("save")
  /\ \E r \in save_to_file_call(st, file) :
       /\ file' = r.file
       /\ probe' = [ probe EXCEPT !.pc = IF r.raised THEN "except" ELSE "sleep" ]
  /\ UNCHANGED << st, exch, now, call, nrec, loss_run, cb_activated_at, env, tmp, adopted_open >>

\* time.sleep(sleep_time), or the handler of "except Exception":
\* notify_error and time.sleep(30)
LoopSleep ==
  /\ At("sleep") \/ At("except")
  /\ probe' = [ probe EXCEPT !.pc = "while" ]
  /\ now' \in { now } \cup { t \in { now + TickHours } : t <= MaxTime }
  /\ UNCHANGED << st, file, exch, call, nrec, loss_run, cb_activated_at, env, tmp, adopted_open >>

\* after the loop: "self.state.save_to_file()", outside any try block
ShutdownSave ==
  /\ At("shutdown")
  /\ \E r \in save_to_file_call(st, file) :
       /\ file' = r.file
       /\ probe' = [ probe EXCEPT !.pc = IF r.raised THEN "raised" ELSE "send",
                                  !.saved = r.saved ]
  /\ UNCHANGED << st, exch, now, call, nrec, loss_run, cb_activated_at, env, tmp, adopted_open >>

\* self.telegram.send("<b>GEMINI BOT STOPPED</b>"), and run() returns
ShutdownSend ==
  /\ At("send")
  /\ probe' = [ probe EXCEPT !.pc = "done", !.notified = TRUE ]
  /\ UNCHANGED << st, file, exch, now, call, nrec, loss_run, cb_activated_at, env, tmp, adopted_open >>

NextLoop ==
  \/ SignalHandler
  \/ LoopTest
  \/ LoopCheckPositions
  \/ LoopDailySummary
  \/ LoopAnalysis
  \/ LoopSave
  \/ LoopSleep
  \/ ShutdownSave
  \/ ShutdownSend

SpecLoop == InitLoop /\ [][NextLoop]_vars

(***************************************************************************)
(* The peak balance of a running bot that holds a position and whose       *)
(* equity reads above and below the account size: monitor passes and the   *)
(* clock as before, and                                                    *)
(* validate_trade, get_drawdown_pct (the daily summary), record_trade and  *)
(* the daily reset called on the running state, the balance read and the   *)
(* answer noted in probe until the call returns.                           *)
(***************************************************************************)
\* at most MaxRecordedPeak closed trades are recorded, each at a loss: two
\* on one day reach the daily loss limit
MaxRecordedPeak == 2

InitPeak ==
  /\ st = [ FreshState(0) EXCEPT !.open_positions = << HeldPosition >> ]
  /\ file = st
  /\ exch = OpenOnExchange([ sym \in SymbolSet |-> Flat(sym) ], BotSymbol, "Buy",
                           HeldPosition.qty, HeldPosition.entry_price,
                           HeldPosition.stop_loss, HeldPosition.take_profit_1)
  /\ now = 0
  /\ call = NoCall
  /\ nrec = 0
  /\ loss_run = 0
  /\ cb_activated_at = NoTime
  /\ tmp = NoFile
  /\ probe = NoProbe
  /\ adopted_open = {}
  /\ env = [ prices |-> {102}, balances |-> {9500, 10200, 10400},
             closed_pnls |-> {0 - 150}, records |-> MaxRecordedPeak ]

NoDirectCall == probe.fn = "none"

ValidateTradeRunning ==
  /\ Idle
  /\ NoDirectCall
  /\ \E balance \in Balances : \E q \in PositionQueries(exch) :
       LET v == validate_trade(st, PreCheckSignal, balance, q, now) IN
       /\ st' = v.st
       /\ probe' = [ fn |-> "validate_trade", balance |-> balance, reason |-> v.reason ]
  /\ UNCHANGED << file, exch, now, call, nrec, loss_run, cb_activated_at, env, tmp, adopted_open >>

\* _send_daily_summary: get_balance(), then get_drawdown_pct()
GetDrawdownPct ==
  /\ Idle
  /\ NoDirectCall
  /\ \E balance \in Balances :
       /\ st' = get_drawdown_pct(st, balance).st
       /\ probe' = [ fn |-> "get_drawdown_pct", balance |-> balance, reason |-> "none" ]
  /\ UNCHANGED << file, exch, now, call, nrec, loss_run, cb_activated_at, env, tmp, adopted_open >>

RecordTradeRunning ==
  /\ Idle
  /\ NoDirectCall
  /\ nrec < env.records
  /\ \E pnl \in ClosedPnls :
       /\ st' = record_trade(st, pnl, now).st
       /\ probe' = [ fn |-> "record_trade", balance |-> 0, reason |-> "none" ]
  /\ nrec' = nrec + 1
  /\ UNCHANGED << file, exch, now, call, loss_run, cb_activated_at, env, tmp, adopted_open >>

ResetDailyRunning ==
  /\ Idle
  /\ NoDirectCall
  /\ st' = reset_daily_if_needed(st, now)
  /\ probe' = [ fn |-> "reset_daily_if_needed", balance |-> 0, reason |-> "none" ]
  /\ UNCHANGED << file, exch, now, call, nrec, loss_run, cb_activated_at, env, tmp, adopted_open >>

ReturnFromDirectCall ==
  /\ ~ NoDirectCall
  /\ probe' = NoProbe
  /\ UNCHANGED << st, file, exch, now, call, nrec, loss_run, cb_activated_at, env, tmp, adopted_open >>

NextPeak ==
  \/ ValidateTradeRunning
  \/ GetDrawdownPct
  \/ RecordTradeRunning
  \/ ResetDailyRunning
  \/ ReturnFromDirectCall
  \/ CheckPositions
  \/ Return
  \/ Tick
  \/ ExchangeClose

SpecPeak == InitPeak /\ [][NextPeak]_vars


(***************************************************************************)
(* The TradingState of a running bot and its state file.  The bot, started *)
(* without a state file, records trades, resets its day and saves its      *)
(* state step by step; the process can be killed at any step and started   *)
(* again, and someone can read the state file at any time.                 *)
(***************************************************************************)
MaxSavedTrades == 2

\* what a reader finds in a file holding f: nothing, a whole state, or less
Reading(f) ==
  IF f = Missing THEN "missing"
  ELSE IF IsDocument(f) /\ DOMAIN f = FieldNames THEN "state"
  ELSE "partial"

\* what is remembered of the calls so far: the date of the last
\* reset_daily_if_needed call on this TradingState (NoTime: none), whether the
\* last direct call came on that same date, whether it found
\* last_daily_reset on another date, and what the last reader of the state
\* file found
NoCalls ==
  [ fn |-> "TradingState", reset_on |-> NoTime, again |-> FALSE,
    crossed |-> FALSE, seen |-> "missing" ]

InitState ==
  /\ st = FreshState(0)
  /\ file = Missing
  /\ exch = [ sym \in SymbolSet |-> Flat(sym) ]
  /\ now = 0
  /\ call = NoCall
  /\ nrec = 0
  /\ loss_run = 0
  /\ cb_activated_at = NoTime
  /\ env = [ prices |-> {}, balances |-> {},
             closed_pnls |-> {0 - 150, 0, 150}, records |-> MaxSavedTrades ]
  /\ tmp = NoFile
  /\ probe = NoCalls
  /\ adopted_open = {}

\* state.reset_daily_if_needed()
ResetDaily ==
  /\ Idle
  /\ st' = reset_daily_if_needed(st, now)
  /\ call' = [ NoCall EXCEPT !.op = "reset_daily_if_needed" ]
  /\ probe' = [ probe EXCEPT !.reset_on = Today(now),
                             !.again = (probe.reset_on = Today(now)),
                             !.crossed = (st.last_daily_reset # Today(now)) ]
  /\ UNCHANGED << file, exch, now, nrec, loss_run, cb_activated_at, env, tmp, adopted_open >>

\* state.record_trade(pnl, ...)
RecordTrade ==
  /\ Idle
  /\ nrec < env.records
  /\ \E pnl \in env.closed_pnls :
       /\ st' = record_trade(st, pnl, now).st
       /\ loss_run' = RunAfter(loss_run, << [ pnl |-> pnl, before |-> st.consecutive_losses ] >>)
  /\ call' = [ NoCall EXCEPT !.op = "record_trade" ]
  /\ nrec' = nrec + 1
  /\ probe' = [ probe EXCEPT !.reset_on = Today(now) ]
  /\ UNCHANGED << file, exch, now, cb_activated_at, env, tmp, adopted_open >>

\* state.save_to_file(): its next step
SaveToFile ==
  /\ call.op \in { "none", "save_to_file" }
  /\ call.stage \in SaveStages
  /\ LET r == save_to_file(call.stage, st, file, tmp) IN
       /\ file' = r.file
       /\ tmp' = r.tmp
       /\ call' = [ NoCall EXCEPT !.op = "save_to_file", !.stage = r.stage ]
  /\ UNCHANGED << st, exch, now, nrec, loss_run, cb_activated_at, env, probe, adopted_open >>

\* a step of the try block raises (no room left on the disk, say).  Once
\* the temporary file exists the handler removes it; when mkstemp itself
\* raises, tmp_path is unbound in the handler and the error leaves
\* save_to_file.
SaveFails ==
  /\ call.op \in { "none", "save_to_file" }
  /\ call.stage \in SaveStages
  /\ call' = [ NoCall EXCEPT !.op = "save_to_file",
                             !.stage = IF call.stage = "none" THEN "raised" ELSE "failed" ]
  /\ tmp' = IF call.stage = "none" THEN tmp ELSE NoFile
  /\ UNCHANGED << st, file, exch, now, nrec, loss_run, cb_activated_at, env, probe, adopted_open >>

\* the call returns
ReturnFromCall ==
  /\ call.op = "save_to_file" => call.stage \notin SaveStages
  /\ Return

\* the process is killed, at any step, and started again: a temporary file
\* stays behind, __init__ loads the state file
Crash ==
  /\ st' = load_from_file(file, now).st
  /\ call' = NoCall
  /\ probe' = [ probe EXCEPT
                  !.reset_on = IF IsDocument(file) THEN Today(now) ELSE NoTime ]
  /\ UNCHANGED << file, exch, now, nrec, loss_run, cb_activated_at, env, tmp, adopted_open >>

\* someone opens the state file and reads it, at any step
Inspect ==
  /\ probe' = [ probe EXCEPT !.seen = Reading(file) ]
  /\ UNCHANGED << st, file, exch, now, call, nrec, loss_run, cb_activated_at, env, tmp, adopted_open >>

NextState ==
  \/ ResetDaily
  \/ RecordTrade
  \/ SaveToFile
  \/ SaveFails
  \/ ReturnFromCall
  \/ Crash
  \/ Inspect
  \/ Tick

SpecState == InitState /\ [][NextState]_vars

(***************************************************************************)
(* Properties.  A handler's step is one that takes the system from idle to *)
(* the record of that handler's call.                                      *)
(***************************************************************************)
EntryOrders(c) == { i \in DOMAIN c.orders : c.orders[i].kind = "entry" }
CloseOrders(c) == { i \in DOMAIN c.orders : c.orders[i].kind = "close" }

\* execute_trade runs in this step (called directly or by the analysis cycle)
ExecuteTradeRuns == call.op = "none" /\ call'.op = "execute_trade"

\* the answers validate_trade gave in the call c
Answers(c) == { c.validated, c.gate } \ { "none" }

OnExchange == { sym \in SymbolSet : exch[sym].size > 0 }

\* C1, as stated: in every reachable state open_positions holds at most one
\* position.
C1_AtMostOnePosition == Len(st.open_positions) <= 1

\* C1, amended: a position opened by execute_trade is alone in
\* open_positions; more than one position is held only when all of them are
\* orphans adopted from the exchange, one for each symbol.
C1_OneUnlessOrphans ==
  Len(st.open_positions) > 1 =>
    /\ \A i \in DOMAIN st.open_positions :
         st.open_positions[i].order_id = "orphan_reconciled"
    /\ \A i, j \in DOMAIN st.open_positions :
         i # j => st.open_positions[i].symbol # st.open_positions[j].symbol

\* the monitor has passed over the bot's own position while the exchange
\* held a second one
C1_Witness ==
  /\ call.op = "check_positions"
  /\ Len(st.open_positions) = 1
  /\ st.open_positions[1].order_id = "order"
  /\ exch[OtherSymbol].size > 0

\* C2: execute_trade sends no order and records no position when
\* open_positions is not empty, when the exchange holds a position of size
\* > 0, or when its positions query fails.
C2_PrecheckFailsClosed ==
  [][ ( /\ ExecuteTradeRuns
        /\ \/ st.open_positions # << >>
           \/ OnExchange # {}
           \/ call'.precheck = "query_failed" )
      => /\ call'.orders = << >>
         /\ ~ call'.recorded
         /\ st'.open_positions = st.open_positions
         /\ exch' = exch ]_vars

\* execute_trade stopped at the position the exchange reported, the local
\* list being empty
C2_Witness ==
  /\ call.op = "execute_trade"
  /\ call.precheck = "exchange"
  /\ st.open_positions = << >>

\* C3: execute_trade sends an entry order only when validate_trade allowed
\* the signal in the same call; when validate_trade rejected it, no order is
\* sent and open_positions is left as it was.
C3_RiskVeto ==
  [][ ExecuteTradeRuns
      => /\ EntryOrders(call') # {} => call'.validated = "allowed"
         /\ call'.validated \notin { "none", "allowed" }
              => /\ call'.orders = << >>
                 /\ st'.open_positions = st.open_positions
                 /\ exch' = exch ]_vars

\* a signal that passed the pre-check was rejected by validate_trade
C3_Witness ==
  /\ call.op = "execute_trade"
  /\ call.precheck = "passed"
  /\ call.stage = "rejected"
  /\ call.validated \notin { "none", "allowed" }

\* C4, as stated: when execute_trade fails after the entry order is live on
\* the exchange, it has sent a reduce-only close order for the submitted
\* quantity before it returns; when it fails before, no order was executed
\* and no position recorded.
C4_EmergencyCloseAfterLiveOrder ==
  call.op = "execute_trade" =>
    /\ (call.entry_live /\ ~ call.recorded)
         => \E i \in CloseOrders(call) :
              /\ call.orders[i].reduceOnly
              /\ call.orders[i].symbol = call.orders[1].symbol
              /\ call.orders[i].qty = call.orders[1].qty
              /\ call.orders[i].side # call.orders[1].side
    /\ ~ call.entry_live
         => /\ ~ call.recorded
            /\ \A i \in DOMAIN call.orders : ~ Executed(call.orders[i])

\* C5: execute_trade appends a position only when the exchange showed the
\* position with size > 0 and stop loss > 0 within the polling window; when
\* the window ends without that, the position is not recorded and a
\* reduce-only close order is sent.
C5_RecordedOnlyWithStop ==
  [][ ExecuteTradeRuns
      => /\ st'.open_positions # st.open_positions
              => /\ call'.sl_confirmed
                 /\ st'.open_positions = Append(st.open_positions,
                                                st'.open_positions[Len(st'.open_positions)])
                 /\ LET pos == st'.open_positions[Len(st'.open_positions)] IN
                    /\ exch'[pos.symbol].size > 0
                    /\ exch'[pos.symbol].stopLoss > 0
         /\ call'.stage = "sl_unverified"
              => /\ st'.open_positions = st.open_positions
                 /\ \E i \in CloseOrders(call') :
                      /\ call'.orders[i].reduceOnly
                      /\ call'.orders[i].qty = call'.orders[1].qty ]_vars

\* the stop loss was not confirmed in time and the close order was sent
C5_Witness ==
  /\ call.op = "execute_trade"
  /\ call.stage = "sl_unverified"
  /\ call.entry_live
  /\ CloseOrders(call) # {}

\* the daily loss has reached ACCOUNT_SIZE * DAILY_LOSS_LIMIT (the daily
\* reset applied: validate_trade has run)
DailyLossReached ==
  /\ call.op = "execute_trade"
  /\ call.validated # "none"
  /\ st.daily_pnl * E4 <= - (ACCOUNT_SIZE * DAILY_LOSS_LIMIT)

PauseRunning ==
  st.circuit_breaker_until # NoTime /\ now < st.circuit_breaker_until

\* C6, as stated: with the daily loss at or beyond the limit, validate_trade
\* rejects with the daily-loss-limit reason and no entry order is sent.
C6_DailyLossReason ==
  DailyLossReached
    => call.validated = "Daily loss limit hit" /\ EntryOrders(call) = {}

\* C6, amended: with the daily loss at or beyond the limit, validate_trade
\* rejects and no entry order is sent; the reason is the daily loss limit,
\* except while the circuit breaker's pause runs, when it is the pause.
C6_DailyLossRejects ==
  DailyLossReached
    => /\ EntryOrders(call) = {}
       /\ call.validated = IF PauseRunning THEN "Circuit breaker active"
                           ELSE "Daily loss limit hit"

\* validate_trade rejected for the daily loss
C6_Witness ==
  DailyLossReached /\ call.validated = "Daily loss limit hit"

\* C7: counting from consecutive_losses = 0, after three losing
\* record_trade calls in a row is_circuit_breaker_triggered() is true, and
\* after one or two it is false.
C7_ThreeLossesTrigger ==
  /\ loss_run = 3 => is_circuit_breaker_triggered(st)
  /\ loss_run \in { 1, 2 } => ~ is_circuit_breaker_triggered(st)

\* the monitor has recorded the third loss in a row
C7_Witness ==
  /\ call.op = "check_positions"
  /\ call.trades # << >>
  /\ loss_run = 3
  /\ call.trades[Len(call.trades)].ret

\* validate_trade, and with it is_circuit_breaker_active, ran in the call c
Checked(c) == Answers(c) # {}

\* C8: once the pause is set, every is_circuit_breaker_active() call before
\* circuit_breaker_until answers true and leaves it; the first call at or
\* after it answers false and clears it; and nothing else clears it.
C8_PauseClearedLazily ==
  [][ /\ ( call.op = "none" /\ Checked(call') /\ PauseRunning )
        => /\ Answers(call') = { "Circuit breaker active" }
           /\ st'.circuit_breaker_until = st.circuit_breaker_until
      /\ ( /\ call.op = "none" /\ Checked(call')
           /\ st.circuit_breaker_until # NoTime /\ ~ PauseRunning )
        => /\ "Circuit breaker active" \notin Answers(call')
           /\ st'.circuit_breaker_until = NoTime
      /\ ( st.circuit_breaker_until # NoTime /\ st'.circuit_breaker_until = NoTime )
        => /\ call.op = "none" /\ Checked(call')
           /\ now >= st.circuit_breaker_until ]_vars

\* a check after the end of the pause has just cleared it in memory (the
\* state file still holds it)
C8_Witness ==
  /\ Checked(call)
  /\ st.circuit_breaker_until = NoTime
  /\ file.circuit_breaker_until # NoTime
  /\ now >= file.circuit_breaker_until

\* C9: from the monitor pass that activates the circuit breaker until
\* CIRCUIT_BREAKER_PAUSE_H hours later, execute_trade sends no entry order.
C9_NoEntryWhilePaused ==
  ( call.op = "execute_trade" /\ EntryOrders(call) # {} )
    => \/ cb_activated_at = NoTime
       \/ now >= cb_activated_at + CIRCUIT_BREAKER_PAUSE_H

\* hours into the pause, on a day without loss, validate_trade rejected for
\* the pause
C9_Witness ==
  /\ call.op = "execute_trade"
  /\ call.validated = "Circuit breaker active"
  /\ cb_activated_at # NoTime
  /\ now > cb_activated_at
  /\ now < cb_activated_at + CIRCUIT_BREAKER_PAUSE_H
  /\ st.daily_pnl >= 0

\* C10: validate_trade rejects every signal whose confidence is below
\* MIN_CONFIDENCE, whatever the rest of the signal, the balance and the
\* trading state.
C10_LowConfidenceRejected ==
  ( /\ call.op = "execute_trade"
    /\ call.validated # "none"
    /\ call.confidence < MIN_CONFIDENCE )
    => call.validated # "allowed" /\ EntryOrders(call) = {}

\* a low confidence was the reason of a rejection
C10_Witness ==
  /\ call.op = "execute_trade"
  /\ call.confidence < MIN_CONFIDENCE
  /\ call.validated = "Confidence too low"

\* validate_trade has answered a call made on its own
Validated == probe.fn = "validate_trade" /\ probe.done

\* the take profit of the signal is on the wrong side of its entry price
TargetMisplaced(sig) ==
  \/ sig.action = "BUY" /\ sig.take_profit_1 <= sig.entry_price
  \/ sig.action = "SELL" /\ sig.take_profit_1 >= sig.entry_price

\* C11, as stated: validate_trade rejects every BUY signal whose
\* take_profit_1 is at or below entry_price and every SELL signal whose
\* take_profit_1 is at or above entry_price, whatever the other fields
\* (take_profit_1 = 0 and a supplied risk_reward_ratio included).
C11_MisplacedTargetRejected ==
  ( Validated /\ TargetMisplaced(probe.sig) ) => ~ probe.allowed

\* calculate_position_size has answered a call made on its own
Sized == probe.fn = "calculate_position_size" /\ probe.done

\* the dollar risk of the quantity returned is at most FIXED_RISK_AMOUNT
\* plus the risk of one lot step (quantities in units of 1/QTY_DEN)
RiskWithinOneStep ==
  probe.qty * Abs(probe.entry - probe.sl)
    <= FIXED_RISK_AMOUNT * QTY_DEN + probe.info.qtyStep * Abs(probe.entry - probe.sl)

MonitorRuns == call.op = "none" /\ call'.op = "check_positions"

\* the pass read a price for the only tracked position, found it open on
\* the exchange and managed it
Managed ==
  /\ MonitorRuns
  /\ Len(st.open_positions) = 1
  /\ Len(st'.open_positions) = 1
  /\ call'.price > 0
  /\ call'.trades = << >>

\* the pass is made on a long position that is not partial-filled, at a
\* price at or above its take_profit_1
LongAtTarget ==
  /\ Managed
  /\ st.open_positions[1].side = "Buy"
  /\ ~ st.open_positions[1].partial_filled
  /\ st.open_positions[1].take_profit_1 > 0
  /\ call'.price >= st.open_positions[1].take_profit_1

\* the first order of the pass is a reduce-only close of the position
FirstOrderCloses(pos, c) ==
  /\ c.orders # << >>
  /\ c.orders[1].kind = "close"
  /\ c.orders[1].reduceOnly
  /\ c.orders[1].symbol = pos.symbol
  /\ c.orders[1].side = CloseSide(pos.side)

C14_TrailingMonotone ==
  [][ ( Managed /\ st.open_positions[1].partial_filled )
      => LET pos == st.open_positions[1]
             after == st'.open_positions[1]
         IN  \/ after.stop_loss = pos.stop_loss
             \/ /\ pos.side = "Buy"
                /\ after.stop_loss > pos.stop_loss
                /\ after.stop_loss = call'.price - pos.atr * TRAILING_ATR_MULT
                /\ after.trailing_activated
             \/ /\ pos.side = "Sell"
                /\ after.stop_loss < pos.stop_loss
                /\ after.stop_loss = call'.price + pos.atr * TRAILING_ATR_MULT
                /\ after.trailing_activated ]_vars

\* the pass read a price under the stop of a long that trails already, and
\* left the stop where it was
C14_Witness ==
  /\ call.op = "check_positions"
  /\ Len(st.open_positions) = 1
  /\ st.open_positions[1].side = "Buy"
  /\ st.open_positions[1].trailing_activated
  /\ call.price > 0
  /\ call.price - st.open_positions[1].atr * TRAILING_ATR_MULT
       < st.open_positions[1].stop_loss
  /\ st.open_positions[1].stop_loss > st.open_positions[1].entry_price
  /\ st.open_positions[1].entry_price > 0

\* C15, as stated (its safety part): once MAX_HOLD_HOURS have passed since
\* a tracked position's entry, every monitor pass made while the exchange
\* shows the position open submits a reduce-only close of the position's
\* current qty, whatever the PnL and the price.
C15_ForcedCloseAfterMaxHold ==
  [][ ( /\ MonitorRuns
        /\ Len(st.open_positions) = 1
        /\ now - st.open_positions[1].timestamp >= MAX_HOLD_HOURS
        /\ exch[st.open_positions[1].symbol].size > 0
        /\ call'.trades = << >> )
      => /\ Len(st'.open_positions) = 1
         /\ \E i \in CloseOrders(call') :
              /\ call'.orders[i].reduceOnly
              /\ call'.orders[i].symbol = st.open_positions[1].symbol
              /\ call'.orders[i].side = CloseSide(st.open_positions[1].side)
              /\ call'.orders[i].qty = st'.open_positions[1].qty ]_vars

\* C16, as stated: a monitor pass that starts with no tracked position and
\* is told of positions by the exchange adopts each of them into
\* open_positions and writes the state file in that pass; and from then on,
\* for as long as the adopted position stays open on the exchange, every
\* execute_trade stops at the local open-position check.
C16_OrphanAdoptedAndBlocking ==
  [][ /\ ( /\ MonitorRuns
           /\ st.open_positions = << >>
           /\ OnExchange # {}
           /\ call'.precheck # "query_failed" )
        => /\ \A sym \in OnExchange :
                \E k \in DOMAIN st'.open_positions :
                   /\ st'.open_positions[k].symbol = sym
                   /\ st'.open_positions[k].qty = exch[sym].size
           /\ file' = st'
      /\ ( ExecuteTradeRuns /\ adopted_open # {} /\ call'.stage \notin { "hold", "invalid_prices" } )
        => /\ call'.precheck = "local"
           /\ call'.orders = << >> ]_vars

(***************************************************************************)
(* load_from_file, called on its own                                       *)
(***************************************************************************)
Loaded == probe.fn = "load_from_file" /\ probe.done

\* the zero or empty value of each field that has one (a date has none)
ZeroOrEmpty ==
  [ daily_pnl |-> 0, total_pnl |-> 0, peak_balance |-> 0, trades_today |-> 0,
    wins_today |-> 0, losses_today |-> 0, consecutive_losses |-> 0,
    winning_streak |-> 0, circuit_breaker_until |-> NoTime,
    open_positions |-> << >>, daily_profit_by_date |-> EmptyDict,
    trading_days |-> {} ]

\* C20, as stated: load_from_file never raises; a missing, a corrupt or an
\* unreadable state file yields a fresh default state; a field missing from
\* an otherwise valid file has its zero or empty value in the state returned.
C20_LoadDefaultsZeroOrEmpty ==
  Loaded =>
    /\ ~ probe.raised
    /\ probe.content \in { Missing, Corrupt, Unreadable }
         => st = FreshState(Today(probe.at))
    /\ IsDocument(probe.content)
         => \A n \in DOMAIN ZeroOrEmpty \ DOMAIN probe.content :
              st[n] = ZeroOrEmpty[n]

\* C20, amended: load_from_file never raises; a missing, a corrupt or an
\* unreadable state file yields a fresh default state; an otherwise valid
\* file yields its fields, each field it lacks standing at the value of a
\* fresh state (peak_balance at ACCOUNT_SIZE, last_daily_reset at today's
\* date, every other field zero or empty), after the daily reset.
C20_LoadDefaultsFresh ==
  Loaded =>
    /\ ~ probe.raised
    /\ probe.content \in { Missing, Corrupt, Unreadable }
         => st = FreshState(Today(probe.at))
    /\ IsDocument(probe.content)
         => st = reset_daily_if_needed(
                   [ n \in FieldNames |->
                       IF n \in DOMAIN probe.content
                       THEN probe.content[n]
                       ELSE FreshState(Today(probe.at))[n] ],
                   probe.at)

\* a file of a bot that has traded, lacking peak_balance, has been loaded
C20_Witness ==
  /\ Loaded
  /\ IsDocument(probe.content)
  /\ "peak_balance" \notin DOMAIN probe.content
  /\ "total_pnl" \in DOMAIN probe.content
  /\ st.total_pnl # 0
  /\ st.peak_balance = ACCOUNT_SIZE

(***************************************************************************)
(* TradingState: the daily reset and the state file                        *)
(***************************************************************************)
\* reset_daily_if_needed is called in this step
ResetRuns == call.op = "none" /\ call'.op = "reset_daily_if_needed"

\* C17: a reset_daily_if_needed call on the same UTC date as the previous
\* reset_daily_if_needed call on the state (direct, or made by record_trade
\* or load_from_file) changes no field of the state.
C17_ResetIdempotent ==
  [][ ( ResetRuns /\ probe.reset_on = Today(now) ) => st' = st ]_vars

\* a second call on a date after day 0, on which a trade has been recorded
C17_Witness ==
  /\ call.op = "reset_daily_if_needed"
  /\ probe.again
  /\ st.trades_today > 0
  /\ st.last_daily_reset > 0

\* the call finds last_daily_reset on another date than today's
ResetOnNewDate == ResetRuns /\ Today(now) # st.last_daily_reset

CountersZeroed ==
  /\ st'.trades_today = 0
  /\ st'.daily_pnl = 0
  /\ st'.wins_today = 0
  /\ st'.losses_today = 0
  /\ st'.last_daily_reset = Today(now)

PriorDayNoted ==
  st'.trading_days = IF st.trades_today > 0
                     THEN st.trading_days \cup { st.last_daily_reset }
                     ELSE st.trading_days

\* daily_profit_by_date holds the prior day's daily_pnl under the prior date,
\* and what it held under other dates
PriorDayArchived ==
  /\ DOMAIN st'.daily_profit_by_date
       = DOMAIN st.daily_profit_by_date \cup { st.last_daily_reset }
  /\ st'.daily_profit_by_date[st.last_daily_reset] = st.daily_pnl
  /\ \A d \in DOMAIN st.daily_profit_by_date \ { st.last_daily_reset } :
       st'.daily_profit_by_date[d] = st.daily_profit_by_date[d]

\* C18, as stated: when today's UTC date differs from last_daily_reset,
\* reset_daily_if_needed zeroes trades_today, daily_pnl, wins_today and
\* losses_today, archives the prior day's daily_pnl in daily_profit_by_date
\* under the prior date, adds that date to trading_days if a trade occurred
\* on it, and sets last_daily_reset to today's date.
C18_ResetArchivesPriorDay ==
  [][ ResetOnNewDate => ( CountersZeroed /\ PriorDayNoted /\ PriorDayArchived ) ]_vars

\* C18, amended: as above, but the prior day's daily_pnl is archived only
\* when it is not zero; a zero daily_pnl leaves daily_profit_by_date as it
\* was, without an entry for the prior date.  No other field changes.
C18_ResetArchivesNonZeroDay ==
  [][ ResetOnNewDate =>
        /\ CountersZeroed
        /\ PriorDayNoted
        /\ IF st.daily_pnl # 0
           THEN PriorDayArchived
           ELSE st'.daily_profit_by_date = st.daily_profit_by_date
        /\ \A n \in { "total_pnl", "peak_balance", "consecutive_losses",
                       "winning_streak", "circuit_breaker_until", "open_positions" } :
             st'[n] = st[n] ]_vars

\* a reset across a date boundary has archived a day on which a trade occurred
C18_Witness ==
  /\ call.op = "reset_daily_if_needed"
  /\ probe.crossed
  /\ st.trades_today = 0
  /\ \E d \in DOMAIN st.daily_profit_by_date :
       d \in st.trading_days /\ d # st.last_daily_reset

\* C19: the state file is at every point absent or a complete state, for the
\* process (which may be killed and restarted at any step of a save) and
\* for every reader; and the state file changes only when save_to_file
\* renames over it the temporary file that holds the state in full.
C19_StateFileNeverPartial ==
  /\ [] ( Reading(file) # "partial" /\ probe.seen # "partial" )
  /\ [][ file' # file =>
           ( call.op = "save_to_file" /\ tmp = TempFile(st, "all") /\ file' = st ) ]_vars

\* the process was killed half-way through json.dump, a state file of an
\* earlier save in place, which a reader has read
C19_Witness ==
  /\ call.op = "none"
  /\ tmp # NoFile
  /\ tmp.written = "part"
  /\ Reading(file) = "state"
  /\ file # tmp.data
  /\ probe.seen = "state"

(***************************************************************************)
(* save_to_file followed by load_from_file                                 *)
(***************************************************************************)
RoundTripped == probe.fn = "round_trip" /\ probe.done

\* the fields reset_daily_if_needed writes
DailyFields ==
  { "daily_pnl", "trades_today", "wins_today", "losses_today",
    "last_daily_reset", "daily_profit_by_date", "trading_days" }

Recorded == probe.fn = "record_trade" /\ probe.done

\* C23, as stated: record_trade returns true only on the call that takes
\* consecutive_losses from below CIRCUIT_BREAKER_LOSSES to it; it returns
\* false when the threshold was already met before the call.
C23_TrueOnlyWhenNewlyMet ==
  ( Recorded /\ probe.ret )
    => /\ probe.state.consecutive_losses < CIRCUIT_BREAKER_LOSSES
       /\ st.consecutive_losses >= CIRCUIT_BREAKER_LOSSES

\* C24: record_trade with pnl < 0 sets winning_streak to 0 and adds one to
\* consecutive_losses; with pnl > 0 it sets consecutive_losses to 0 and adds
\* one to winning_streak; with pnl = 0 it leaves both as they were.
C24_StreakCounters ==
  Recorded =>
    /\ probe.pnl < 0
         => /\ st.winning_streak = 0
            /\ st.consecutive_losses = probe.state.consecutive_losses + 1
    /\ probe.pnl > 0
         => /\ st.consecutive_losses = 0
            /\ st.winning_streak = probe.state.winning_streak + 1
    /\ probe.pnl = 0
         => /\ st.consecutive_losses = probe.state.consecutive_losses
            /\ st.winning_streak = probe.state.winning_streak

\* a zero-PnL trade recorded on a winning streak of two
C24_Witness ==
  /\ Recorded
  /\ probe.pnl = 0
  /\ probe.state.winning_streak = 2
  /\ st.winning_streak = 2
  /\ st.trades_today = probe.state.trades_today + 1


\* C25 (its safety part): once the partial close at take_profit_1 has
\* succeeded for a position, the move of its stop loss to the entry price
\* does not depend on the first set_trading_stop call: a later pass over the
\* position, still open and not yet at break-even, in which the exchange
\* takes a new stop from the monitor, leaves breakeven_activated set.
C25_BreakevenRetried ==
  [][ ( /\ Managed
        /\ st.open_positions[1].partial_filled
        /\ ~ st.open_positions[1].breakeven_activated
        /\ exch'[st.open_positions[1].symbol].size > 0
        /\ exch'[st.open_positions[1].symbol].stopLoss
             # exch[st.open_positions[1].symbol].stopLoss )
      => st'.open_positions[1].breakeven_activated ]_vars


\* C26: every entry order execute_trade sends has a quantity computed from
\* the live price read in that call, never from the signal's entry_price:
\* the price was read, and the quantity is calculate_position_size of that
\* price, the order's stop loss and a balance read.
C26_SizedFromLivePrice ==
  [][ ExecuteTradeRuns
      => \A i \in EntryOrders(call') :
           /\ call'.price > 0
           /\ \E balance \in Balances, info \in InstrumentInfos :
                call'.orders[i].qty
                  = calculate_position_size(call'.price, call'.orders[i].stopLoss,
                                            balance, info) ]_vars


\* risk and reward distances of a signal's prices
RiskDistance(sig) == Abs(sig.entry_price - sig.stop_loss)
RewardDistance(sig) == Abs(sig.take_profit_1 - sig.entry_price)

\* reward / risk >= MIN_RR_RATIO (MIN_RR_RATIO in hundredths)
PriceRatioAtLeastMin(sig) ==
  RiskDistance(sig) > 0 /\ RewardDistance(sig) * 100 >= MIN_RR_RATIO * RiskDistance(sig)

ProposedMargin(sig, balance) ==
  IF sig.entry_price <= 0 THEN 0
  ELSE ( calculate_position_size(sig.entry_price, sig.stop_loss, balance,
                                 [ ok |-> TRUE, qtyStep |-> QTY_DEN,
                                   minOrderQty |-> QTY_DEN ])
         * sig.entry_price ) \div ASSUMED_LEVERAGE

\* C28: validate_trade rejects whenever the margin of the positions the
\* exchange holds plus the margin of the proposed trade is not under
\* balance * MAX_MARGIN_EXPOSURE.
C28_MarginWithProposedRejects ==
  ( /\ Validated
    /\ ( current_margin(AllPositions(exch))
           + ProposedMargin(probe.sig, probe.balance) ) * E4
         >= probe.balance * MAX_MARGIN_EXPOSURE * QTY_DEN )
  => ~ probe.allowed


\* _check_profit_distribution has answered a call made on its own
DistributionChecked == probe.fn = "_check_profit_distribution" /\ probe.done

\* today's realized profit: the archived entry for today plus daily_pnl
TodayProfit(s, t) == DictGet(s.daily_profit_by_date, Today(t), 0) + s.daily_pnl

\* C29: the profit-distribution check passes whenever fewer than
\* MIN_DISTRIBUTION_DAYS trading days are recorded or total_pnl is below
\* MIN_DISTRIBUTION_PROFIT; otherwise it rejects exactly when today's
\* profit divided by total_pnl exceeds PROFIT_DISTRIBUTION_MAX.
C29_DistributionCheck ==
  DistributionChecked
  => LET s == probe.state IN
     IF \/ Cardinality(s.trading_days) < MIN_DISTRIBUTION_DAYS
        \/ s.total_pnl < MIN_DISTRIBUTION_PROFIT
     THEN probe.ret
     ELSE ~ probe.ret
            <=> TodayProfit(s, probe.at) * E4 > PROFIT_DISTRIBUTION_MAX * s.total_pnl

\* the check passed a day's profit of exactly PROFIT_DISTRIBUTION_MAX of
\* the total after MIN_DISTRIBUTION_DAYS trading days or more
C29_Witness ==
  /\ DistributionChecked
  /\ probe.ret
  /\ Cardinality(probe.state.trading_days) >= MIN_DISTRIBUTION_DAYS
  /\ probe.state.total_pnl >= MIN_DISTRIBUTION_PROFIT
  /\ TodayProfit(probe.state, probe.at) * E4
       = PROFIT_DISTRIBUTION_MAX * probe.state.total_pnl


\* the answers validate_trade gives before it reaches _check_total_drawdown
BeforeDrawdownCheck == { "Circuit breaker active", "Daily loss limit hit" }

\* in this step the drawdown check of validate_trade or get_drawdown_pct,
\* called on the running state, saw the balance b
DrawdownCheckSaw(b) ==
  /\ probe.fn = "none"
  /\ probe'.fn \in { "validate_trade", "get_drawdown_pct" }
  /\ probe'.balance = b
  /\ probe'.reason \notin BeforeDrawdownCheck

\* C30: peak_balance never decreases in any operation of the running bot
\* (validate_trade, get_drawdown_pct, record_trade, the daily reset, the
\* monitor passes), and it is raised exactly when the
\* drawdown check sees a balance above it: to that balance.
C30_PeakHighWaterMark ==
  [][ /\ st'.peak_balance >= st.peak_balance
      /\ \A b \in Balances :
           DrawdownCheckSaw(b) => st'.peak_balance = Max(st.peak_balance, b)
      /\ st'.peak_balance > st.peak_balance
           => /\ st'.peak_balance \in Balances
              /\ DrawdownCheckSaw(st'.peak_balance) ]_vars

\* after the peak was raised above the account size, the drawdown check
\* saw a lower balance, still above the account size, and the peak stayed
C30_Witness ==
  /\ probe.fn = "get_drawdown_pct"
  /\ probe.balance > ACCOUNT_SIZE
  /\ st.peak_balance > probe.balance


\* run() has ended: it returned, or an error left it
RunEnded == probe.fn = "run" /\ probe.pc \in { "done", "raised" }

\* C22: after a termination signal the loop starts no further iteration and
\* leaves only from the test of the while statement, the iteration in
\* progress finished; and when run() has ended, the state was saved after
\* the loop, the shutdown notification was sent and run() returned.
C22_GracefulShutdown ==
  /\ [][ /\ ~ probe.running => probe'.iteration = probe.iteration
         /\ probe'.pc = "shutdown" => ( probe.pc \in { "while", "shutdown" }
                                        /\ ~ probe.running ) ]_vars
  /\ [] ( RunEnded => probe.pc = "done" /\ probe.notified )


\* the sizing procedure without its minimum-trade-value step: the smaller
\* of the fixed-risk quantity and the quantity of the largest position
\* value, rounded to the lot step and raised to the minimum order quantity
SizeWithoutValueFloor(entry, sl, balance, info) ==
  IF ~ info.ok \/ Abs(entry - sl) <= 0 THEN 0
  ELSE LET by_risk == Frac(FIXED_RISK_AMOUNT, Abs(entry - sl))
           by_value == FracDiv(FracMul(Frac(balance * MAX_MARGIN_EXPOSURE, E4),
                                       ASSUMED_LEVERAGE), entry)
           qty == IF FracLess(by_value, by_risk) THEN by_value ELSE by_risk
           steps == RoundHalfEven(qty[1] * QTY_DEN, qty[2] * info.qtyStep)
       IN  FormatG(Max(info.minOrderQty, steps * info.qtyStep))

\* the fixed-risk quantity is worth less than MIN_TRADE_VALUE_PCT of the
\* balance: the minimum-trade-value step raises the quantity
ValueFloorActs(entry, sl, balance) ==
  /\ Abs(entry - sl) > 0
  /\ FIXED_RISK_AMOUNT * entry * E4 < balance * MIN_TRADE_VALUE_PCT * Abs(entry - sl)

\* C40: for every entry, stop loss, balance, lot step and minimum order
\* quantity, calculate_position_size returns what the same procedure
\* returns with the minimum-trade-value step removed.
C40_ValueFloorWithoutEffect ==
  Sized => probe.qty = SizeWithoutValueFloor(probe.entry, probe.sl, probe.balance,
                                             probe.info)

\* a size was returned for a call in which the minimum-trade-value step
\* raised the quantity, above the minimum order quantity
C40_Witness ==
  /\ Sized
  /\ ValueFloorActs(probe.entry, probe.sl, probe.balance)
  /\ probe.info.ok
  /\ probe.qty > 0


ValidatedAsLong(sig) == Upper(sig.action) = "BUY"

\* C35: the entry order execute_trade submits is a Buy when the risk checks
\* treated the signal as a long and a Sell when they treated it as a short,
\* for every action string the analyzer and the analysis cycle let through.
C35_SideMatchesValidatedDirection ==
  (probe.fn = "execute_trade" /\ probe.done) =>
    \A i \in EntryOrders(call) :
      call.orders[i].side = IF ValidatedAsLong(probe.sig) THEN "Buy" ELSE "Sell"


\* the tracked positions
Tracked == { st.open_positions[i] : i \in DOMAIN st.open_positions }

\* qty is original_qty x (1 - PARTIAL_CLOSE_PCT) to within one lot step
\* (the step is one contract, QTY_DEN units)
HalfOfOriginal(pos) ==
  Abs(pos.qty * 100 - pos.original_qty * (100 - PARTIAL_CLOSE_PCT)) <= QTY_DEN * 100

\* C31: every tracked position has qty <= original_qty and, once
\* partial_filled, qty equal to original_qty x (1 - PARTIAL_CLOSE_PCT) up to
\* lot-step rounding, in every reachable state.
C31_QtyInvariant ==
  \A pos \in Tracked :
    /\ pos.qty <= pos.original_qty
    /\ pos.partial_filled => HalfOfOriginal(pos)


\* the positions tracked before this step and no longer tracked after it
Removed ==
  { pos \in Tracked :
      \A i \in DOMAIN st'.open_positions : st'.open_positions[i].symbol # pos.symbol }

\* C34: a monitor pass removes a tracked position, and records its closed
\* trade, only if the exchange answered the size query with zero for its
\* symbol: the exchange holds no position of that symbol during the pass.
C34_RemovedOnlyWhenFlat ==
  [][MonitorRuns =>
       /\ \A pos \in Removed : exch[pos.symbol].size = 0
       /\ call'.trades # << >> => \E pos \in Tracked : exch[pos.symbol].size = 0]_vars


\* stop b is no looser than stop a for a position of this side
NotLoosened(side, a, b) == IF side = "Buy" THEN b >= a ELSE b <= a

\* C36: while a position opened by execute_trade is tracked, no step
\* loosens its stop loss, in the local record or on the exchange: for a long
\* it never decreases and for a short it never increases, whatever
\* entry_price was recorded.
C36_StopNeverLoosened ==
  [][\A i \in DOMAIN st.open_positions :
       (i \in DOMAIN st'.open_positions
        /\ st'.open_positions[i].order_id = st.open_positions[i].order_id
        /\ st.open_positions[i].order_id # "orphan_reconciled") =>
         LET pos == st.open_positions[i] IN
         /\ NotLoosened(pos.side, pos.stop_loss, st'.open_positions[i].stop_loss)
         /\ (exch[pos.symbol].size > 0 /\ exch'[pos.symbol].size > 0) =>
              NotLoosened(pos.side, exch[pos.symbol].stopLoss,
                          exch'[pos.symbol].stopLoss)]_vars


(***************************************************************************)
(* trading_state.py: trade_history.  The list is kept beside st, in        *)
(* probe.trade_history, with the list the state file holds in              *)
(* probe.saved_history; an entry is the time and the PnL of a trade.       *)
(***************************************************************************)
HISTORY_CAP == 100
MaxRecordedHistory == 3

\* record_trade: the entry appended, the last HISTORY_CAP entries kept
append_trade(history, pnl, t) ==
  LET all == Append(history, [ timestamp |-> t, pnl |-> pnl ])
  IN  IF Len(all) > HISTORY_CAP
      THEN SubSeq(all, Len(all) - HISTORY_CAP + 1, Len(all))
      ELSE all

\* the bot b after n more trades closed on day 0, each lost at the fixed
\* risk amount (the calls are made one after the other; the definition
\* splits them in two runs)
RECURSIVE LosingTrades(_, _)
LosingTrades(b, n) ==
  IF n = 0 THEN b
  ELSE IF n = 1
  THEN [ st |-> record_trade(b.st, 0 - FIXED_RISK_AMOUNT, 0).st,
         trade_history |-> append_trade(b.trade_history, 0 - FIXED_RISK_AMOUNT, 0) ]
  ELSE \* the first run is evaluated before the second starts
       LET first == LosingTrades(b, n \div 2)
       IN  IF first.st.trades_today > 0 THEN LosingTrades(first, n - n \div 2)
           ELSE first

BusyDay(n) == LosingTrades([ st |-> FreshState(0), trade_history |-> << >> ], n)

\* a bot that starts with no state file, or goes on after HISTORY_CAP - 1
\* trades closed today
InitHistory ==
  /\ \E b \in { BusyDay(0), BusyDay(HISTORY_CAP - 1) } :
       /\ st = b.st
       /\ probe = [ fn |-> "trade_history", trade_history |-> b.trade_history,
                    saved_history |-> << >> ]
  /\ file = Missing
  /\ exch = [ sym \in SymbolSet |-> Flat(sym) ]
  /\ now = 0
  /\ call = NoCall
  /\ nrec = 0
  /\ loss_run = 0
  /\ cb_activated_at = NoTime
  /\ env = [ prices |-> {}, balances |-> {},
             closed_pnls |-> {0 - FIXED_RISK_AMOUNT, 3 * FIXED_RISK_AMOUNT},
             records |-> MaxRecordedHistory ]
  /\ tmp = NoFile
  /\ adopted_open = {}

\* the clock readings the entry's timestamp can get in a record_trade call
\* that starts at time t: record_trade reads the clock for the daily reset,
\* again for trading_days and again for the timestamp, and midnight may
\* pass in between
Timestamps(t) ==
  {t} \cup { m \in { (Today(t) + 1) * HoursPerDay } : m <= MaxTime }

\* state.record_trade(pnl, ...)
RecordTradeLogged ==
  /\ nrec < env.records
  /\ \E pnl \in env.closed_pnls : \E stamp \in Timestamps(now) :
       /\ st' = record_trade(st, pnl, now).st
       /\ probe' = [ probe EXCEPT !.trade_history = append_trade(@, pnl, stamp) ]
       /\ now' = stamp
  /\ nrec' = nrec + 1
  /\ UNCHANGED << file, exch, call, loss_run, cb_activated_at, env, tmp, adopted_open >>

\* state.reset_daily_if_needed(), as validate_trade and the analysis cycle
\* call it
ResetDailyLogged ==
  /\ st' = reset_daily_if_needed(st, now)
  /\ UNCHANGED << file, exch, now, call, nrec, loss_run, cb_activated_at, env, tmp, probe, adopted_open >>

\* state.save_to_file(), run to its end
SaveLogged ==
  /\ file' = saved_file(st, file)
  /\ probe' = [ probe EXCEPT !.saved_history = probe.trade_history ]
  /\ UNCHANGED << st, exch, now, call, nrec, loss_run, cb_activated_at, env, tmp, adopted_open >>

\* the process is started again: load_from_file()
RestartLogged ==
  /\ st' = load_from_file(file, now).st
  /\ probe' = [ probe EXCEPT
                  !.trade_history = IF IsDocument(file) THEN probe.saved_history
                                    ELSE << >> ]
  /\ UNCHANGED << file, exch, now, call, nrec, loss_run, cb_activated_at, env, tmp, adopted_open >>

NextHistory ==
  \/ RecordTradeLogged
  \/ ResetDailyLogged
  \/ SaveLogged
  \/ RestartLogged
  \/ Tick

SpecHistory == InitHistory /\ [][NextHistory]_vars

\* the trade_history entries dated today
DatedOn(today, entry) == Today(entry.timestamp) = today
TodaysTrades(history, today) ==
  SelectSeq(history, LAMBDA entry : DatedOn(today, entry))

\* the sum of the pnl values of a list of entries, by halves
RECURSIVE SumPnl(_)
SumPnl(history) ==
  IF history = << >> THEN 0
  ELSE IF Len(history) = 1 THEN history[1].pnl
  ELSE LET half == Len(history) \div 2 IN
       SumPnl(SubSeq(history, 1, half))
         + SumPnl(SubSeq(history, half + 1, Len(history)))

\* the counters of the day agree with the history
CountersMatchHistory ==
  LET todays == TodaysTrades(probe.trade_history, Today(now)) IN
  /\ st.trades_today = Len(todays)
  /\ st.daily_pnl = SumPnl(todays)

\* the daily reset has been applied for the current date
ResetApplied == st.last_daily_reset = Today(now)

\* C32, as stated: once the daily reset has been applied for the current
\* date, trades_today is the number of trade_history entries dated today and
\* daily_pnl the sum of their pnl values, in every reachable state.
C32_CountersMatchHistory == ResetApplied => CountersMatchHistory


\* the pass submits a TP1 partial close for the only tracked position, one
\* that execute_trade opened: it is not partial-filled and the price read
\* has reached its take_profit_1
SubmitsPartialClose ==
  /\ Managed
  /\ st.open_positions[1].order_id = "order"
  /\ ~ st.open_positions[1].partial_filled
  /\ st.open_positions[1].take_profit_1 > 0
  /\ hit_tp1(st.open_positions[1], call'.price)
  /\ FirstOrderCloses(st.open_positions[1], call')

\* C37: at most one TP1 partial close order is submitted for a position
\* opened on the exchange: when a monitor pass submits one, no earlier one
\* has been executed, so the exchange still holds the position at the size
\* it was opened with.
C37_OnePartialClose ==
  [][SubmitsPartialClose =>
       exch[st.open_positions[1].symbol].size = st.open_positions[1].original_qty]_vars


(***************************************************************************)
(* main.py: the analysis cycles of a day.  probe counts the entry orders   *)
(* the exchange executed on the day probe.day.                             *)
(***************************************************************************)
MaxEntriesCounted == 3

InitDay ==
  /\ st = FreshState(0)
  /\ file = FreshState(0)
  /\ exch = [ sym \in SymbolSet |-> Flat(sym) ]
  /\ now = 0
  /\ call = NoCall
  /\ nrec = 0
  /\ loss_run = 0
  /\ cb_activated_at = NoTime
  /\ env = [ prices |-> {102}, balances |-> {},
             closed_pnls |-> {0 - 150}, records |-> MaxRecordedShared ]
  /\ tmp = NoFile
  /\ probe = [ fn |-> "entries", day |-> 0, entries |-> 0 ]
  /\ adopted_open = {}

\* the entry orders of the call c that the exchange executed
ExecutedEntries(c) == { i \in EntryOrders(c) : Executed(c.orders[i]) }

\* the entry orders executed on the day of time t, those of the call c
\* included
EntriesOfDay(c, t) ==
  (IF probe.day = Today(t) THEN probe.entries ELSE 0)
    + Cardinality(ExecutedEntries(c))

\* _run_analysis_cycle(), its entry order counted
RunAnalysisCycleCounted ==
  /\ Idle
  /\ probe.day = Today(now) => probe.entries < MaxEntriesCounted
  /\ \E o \in _run_analysis_cycle(st, exch, file, now) :
       /\ st' = o.st
       /\ exch' = o.exch
       /\ file' = o.file
       /\ call' = o.call
       /\ nrec' = nrec + Len(o.call.trades)
       /\ loss_run' = RunAfter(loss_run, o.call.trades)
       /\ cb_activated_at' = IF o.call.activated THEN now ELSE cb_activated_at
       /\ adopted_open' = { sym \in adopted_open \cup NewOrphans(o) : o.exch[sym].size > 0 }
       /\ probe' = [ probe EXCEPT !.day = Today(now),
                                  !.entries = EntriesOfDay(o.call, now) ]
  /\ UNCHANGED << now, env, tmp >>

NextDay ==
  \/ RunAnalysisCycleCounted
  \/ CheckPositions
  \/ Return
  \/ Tick
  \/ ExchangeClose

SpecDay == InitDay /\ [][NextDay]_vars

\* C38: the entry market orders execute_trade gets executed within one UTC
\* day never number more than MAX_TRADES_PER_DAY, trade attempts that end in
\* an emergency close included.
C38_EntriesPerDay ==
  probe.entries <= MAX_TRADES_PER_DAY

(***************************************************************************)
(* A position left on the exchange by an emergency close that was not      *)
(* executed, in the frame of run().                                        *)
(***************************************************************************)
\* every position open on exchange x has a record in state s
EveryPositionRecorded(s, x) ==
  \A sym \in SymbolSet :
     x[sym].size > 0
       => \E i \in DOMAIN s.open_positions : s.open_positions[i].symbol = sym

\* the position of the failed emergency close is still open and in no record
StillUnrecorded ==
  /\ probe.unrecorded
  /\ st.open_positions = << >>
  /\ OnExchange # {}

\* C39: after an emergency close has failed and left the opened position on
\* the exchange with no local record, a cycle of analysis and entry that
\* starts while a position is open on the exchange submits no entry order;
\* a monitor pass that starts with the position unrecorded and whose
\* exchange query succeeds ends with the position in open_positions; and in
\* an iteration of run() the cycle starts only after the monitor pass and
\* the daily summary of the same iteration.
C39_UnrecordedPositionAdopted ==
  [][ /\ (At("analysis") /\ probe'.pc = "save" /\ OnExchange # {})
           => EntryOrders(call') = {}
      /\ (At("check_positions") /\ probe'.pc = "daily_summary" /\ StillUnrecorded
             /\ call'.precheck # "query_failed")
           => /\ call'.adopted > 0
              /\ EveryPositionRecorded(st', exch')
      /\ (probe'.pc = "analysis" /\ probe.pc # "analysis")
           => /\ probe.pc = "daily_summary"
              /\ probe'.iteration = probe.iteration
      /\ (probe'.pc = "daily_summary" /\ probe.pc # "daily_summary")
           => /\ probe.pc = "check_positions"
              /\ probe'.iteration = probe.iteration ]_vars

\* the emergency close failed in the first iteration and the monitor pass
\* of a later one has adopted the position
C39_Witness ==
  /\ probe.unrecorded
  /\ probe.iteration > 1
  /\ At("daily_summary")
  /\ call.op = "check_positions"
  /\ call.adopted > 0
  /\ st.open_positions # << >>
  /\ st.open_positions[1].order_id = "orphan_reconciled"
  /\ EveryPositionRecorded(st, exch)

====
